---- MODULE Spec2Model ----
(***************************************************************************)
(* Dispatch calculation engine of concrete_manager (calculator.py) with    *)
(* the store session (models.py) and the batch handlers (app.py).          *)
(*                                                                         *)
(* Text is a sequence of one-character strings.  Money is kept in cents,   *)
(* fuel rates in hundredths of L/km, fuel prices in tenths; round(x, 2)    *)
(* is RoundDiv on the exact quotient.                                      *)
(***************************************************************************)
EXTENDS Integers, Sequences, FiniteSets, TLC

\* None: NoText where text is expected, NoNum where a number is expected
NoText == <<"None">>

NoNum == -1

\* ------------------------------------------------------------------------
\* Bounds
\* ------------------------------------------------------------------------
\* rows in the dispatches table plus rows added to open sessions
MaxDispatch == 2

\* create_dispatch calls in one request
MaxBatch == 2

\* preview_dispatch calls in one request
MaxPreview == 2

\* ------------------------------------------------------------------------
\* Text helpers
\* ------------------------------------------------------------------------
DigitChars == <<"0", "1", "2", "3", "4", "5", "6", "7", "8", "9">>

IsDigit(c) == \E i \in 1..10 : DigitChars[i] = c

DigitVal(c) == (CHOOSE i \in 1..10 : DigitChars[i] = c) - 1

RECURSIVE Digits(_)
Digits(n) == IF n < 10 THEN <<DigitChars[n + 1]>>
             ELSE Digits(n \div 10) \o <<DigitChars[(n % 10) + 1]>>

\* f"{n:02d}": decimal digits, zero-padded to a width of at least 2
Fmt02(n) == IF n < 10 THEN <<"0">> \o Digits(n) ELSE Digits(n)

RECURSIVE ToInt(_)
ToInt(s) == IF s = <<>> THEN 0
            ELSE 10 * ToInt(SubSeq(s, 1, Len(s) - 1)) + DigitVal(s[Len(s)])

IsPrefix(p, s) == Len(p) <= Len(s) /\ SubSeq(s, 1, Len(p)) = p

UpperChars == <<"A", "B", "C", "D", "E", "F", "G", "H", "I", "J", "K", "L", "M", "N", "O", "P", "Q", "R", "S", "T", "U", "V", "W", "X", "Y", "Z">>

LowerChars == <<"a", "b", "c", "d", "e", "f", "g", "h", "i", "j", "k", "l", "m", "n", "o", "p", "q", "r", "s", "t", "u", "v", "w", "x", "y", "z">>

IsUpper(c) == \E i \in 1..26 : UpperChars[i] = c

IsLower(c) == \E i \in 1..26 : LowerChars[i] = c

\* str.upper / str.lower on one character
UpperChar(c) == IF IsLower(c) THEN UpperChars[CHOOSE i \in 1..26 : LowerChars[i] = c] ELSE c

LowerChar(c) == IF IsUpper(c) THEN LowerChars[CHOOSE i \in 1..26 : UpperChars[i] = c] ELSE c

RECURSIVE Strip(_)
Strip(s) == IF s = <<>> THEN s
            ELSE IF Head(s) = " " THEN Strip(Tail(s))
            ELSE IF s[Len(s)] = " " THEN Strip(SubSeq(s, 1, Len(s) - 1))
            ELSE s

\* normalize: "" for a falsy value, else str(s).strip().upper()
Upper(s) == [i \in 1..Len(s) |-> UpperChar(s[i])]

normalize(s) == IF s = NoText \/ s = <<>> THEN <<>> ELSE Upper(Strip(s))

\* ------------------------------------------------------------------------
\* difflib.SequenceMatcher / get_close_matches as used by fuzzy_match
\* ------------------------------------------------------------------------
\* code point of a character
CharOrd(c) ==
    CASE c = " " -> 32
      [] IsDigit(c) -> 48 + DigitVal(c)
      [] IsUpper(c) -> 64 + (CHOOSE i \in 1..26 : UpperChars[i] = c)
      [] IsLower(c) -> 96 + (CHOOSE i \in 1..26 : LowerChars[i] = c)
      [] OTHER -> 127

\* Python str comparison a < b
RECURSIVE StrLess(_, _)
StrLess(a, b) ==
    IF b = <<>> THEN FALSE
    ELSE IF a = <<>> THEN TRUE
    ELSE IF CharOrd(Head(a)) # CharOrd(Head(b)) THEN CharOrd(Head(a)) < CharOrd(Head(b))
    ELSE StrLess(Tail(a), Tail(b))

\* all common blocks a[i..i+k-1] = b[j..j+k-1] inside the two windows
CommonBlocks(a, b, alo, ahi, blo, bhi) ==
    { blk \in (alo..ahi) \X (blo..bhi) \X (1..(ahi - alo + 1)) :
        /\ blk[1] + blk[3] - 1 <= ahi
        /\ blk[2] + blk[3] - 1 <= bhi
        /\ \A t \in 0..(blk[3] - 1) : a[blk[1] + t] = b[blk[2] + t] }

\* the longest of the blocks, then the earliest in a, then the earliest in b
LongestOf(blks, alo, blo) ==
    IF blks = {} THEN <<alo, blo, 0>>
    ELSE CHOOSE x \in blks : \A y \in blks :
           \/ x[3] > y[3]
           \/ x[3] = y[3] /\ x[1] < y[1]
           \/ x[3] = y[3] /\ x[1] = y[1] /\ x[2] <= y[2]

\* find_longest_match
LongestMatch(a, b, alo, ahi, blo, bhi) ==
    LongestOf(CommonBlocks(a, b, alo, ahi, blo, bhi), alo, blo)

\* sum of the sizes of get_matching_blocks: the longest match m, then the
\* matches to its left and to its right
RECURSIVE MatchCount(_, _, _, _, _, _)
RECURSIVE MatchCountAround(_, _, _, _, _, _, _)
MatchCountAround(a, b, alo, ahi, blo, bhi, m) ==
    IF m[3] = 0 THEN 0
    ELSE m[3] + MatchCount(a, b, alo, m[1] - 1, blo, m[2] - 1)
              + MatchCount(a, b, m[1] + m[3], ahi, m[2] + m[3], bhi)

MatchCount(a, b, alo, ahi, blo, bhi) ==
    IF alo > ahi \/ blo > bhi THEN 0
    ELSE MatchCountAround(a, b, alo, ahi, blo, bhi, LongestMatch(a, b, alo, ahi, blo, bhi))

\* ratio() = 2*M/T as the fraction <<numerator, denominator>>; 1.0 when T = 0
Ratio(a, b) ==
    IF Len(a) + Len(b) = 0 THEN <<1, 1>>
    ELSE <<2 * MatchCount(a, b, 1, Len(a), 1, Len(b)), Len(a) + Len(b)>>

\* ratio >= cutoff, the cutoff given in tenths
RatioAtLeast(r, cutoff10) == 10 * r[1] >= cutoff10 * r[2]

\* the tuple (score, text) of possibility i is at least that of possibility j
ScoreAbove(possibilities, scores, i, j) ==
    \/ scores[i][1] * scores[j][2] > scores[j][1] * scores[i][2]
    \/ /\ scores[i][1] * scores[j][2] = scores[j][1] * scores[i][2]
       /\ ~StrLess(possibilities[i], possibilities[j])

\* heapq.nlargest(1, ...) over the possibilities scoring at least the cutoff
BestMatch(possibilities, cutoff10, scores) ==
    LET good == { i \in 1..Len(possibilities) : RatioAtLeast(scores[i], cutoff10) }
    IN  IF good = {} THEN NoText
        ELSE possibilities[CHOOSE i \in good :
                             \A j \in good : ScoreAbove(possibilities, scores, i, j)]

\* get_close_matches(word, possibilities, n=1, cutoff): the normalized
\* possibility with the largest (score, text) tuple, or NoText
GetCloseMatch(word, possibilities, cutoff10) ==
    BestMatch(possibilities, cutoff10,
              [i \in 1..Len(possibilities) |-> Ratio(possibilities[i], word)])

MinOf(S) == CHOOSE i \in S : \A j \in S : i <= j

\* the second loop of fuzzy_match: the first candidate that normalizes to
\* the close match
FuzzyBack(candidates, norm, close) ==
    LET back == { i \in 1..Len(candidates) : norm[i] = close }
    IN  IF close # NoText /\ back # {} THEN candidates[MinOf(back)] ELSE NoText

\* fuzzy_match once the query (q) and the candidates (norm) are normalized
FuzzyNormalized(candidates, cutoff10, q, norm) ==
    LET exact == { i \in 1..Len(candidates) : norm[i] = q }
    IN  IF exact # {} THEN candidates[MinOf(exact)]
        ELSE FuzzyBack(candidates, norm, GetCloseMatch(q, norm, cutoff10))

\* fuzzy_match(query, candidates, cutoff)
fuzzy_match(query, candidates, cutoff10) ==
    IF query = NoText \/ query = <<>> \/ candidates = <<>> THEN NoText
    ELSE FuzzyNormalized(candidates, cutoff10, normalize(query),
                         [i \in 1..Len(candidates) |-> normalize(candidates[i])])

\* A Python dict built by successive assignment from <<label, entity>>
\* pairs: keys keep the position of their first insertion, values are the
\* last one assigned.
RECURSIVE DictKeys(_)
DictKeys(pairs) ==
    IF pairs = <<>> THEN <<>>
    ELSE LET front == DictKeys(SubSeq(pairs, 1, Len(pairs) - 1))
             k == pairs[Len(pairs)][1]
         IN  IF \E i \in 1..Len(front) : front[i] = k THEN front
             ELSE Append(front, k)

DictGet(pairs, key) ==
    LET hits == { i \in 1..Len(pairs) : pairs[i][1] = key }
    IN  pairs[CHOOSE i \in hits : \A j \in hits : j <= i][2]

\* ------------------------------------------------------------------------
\* parse_psi / parse_date
\* ------------------------------------------------------------------------
RECURSIVE RemovePsi(_)
RemovePsi(s) ==
    IF s = <<>> THEN s
    ELSE IF IsPrefix(<<"p", "s", "i">>, s) THEN RemovePsi(SubSeq(s, 4, Len(s)))
    ELSE <<Head(s)>> \o RemovePsi(Tail(s))

RECURSIVE OnlyDigits(_)
OnlyDigits(s) ==
    IF s = <<>> THEN s
    ELSE IF IsDigit(Head(s)) THEN <<Head(s)>> \o OnlyDigits(Tail(s))
    ELSE OnlyDigits(Tail(s))

\* parse_psi appending "00" whatever the number of digits
ParsePsiAlwaysScaled(raw) ==
    IF raw = NoText \/ raw = <<>> THEN NoNum
    ELSE LET s == Strip(RemovePsi([i \in 1..Len(raw) |-> LowerChar(raw[i])]))
             digits == OnlyDigits(s)
         IN  IF digits = <<>> THEN NoNum
             ELSE ToInt(digits \o <<"0", "0">>)

parse_psi(raw) ==
    IF raw = NoText \/ raw = <<>> THEN NoNum
    ELSE LET s == Strip(RemovePsi([i \in 1..Len(raw) |-> LowerChar(raw[i])]))
             digits == OnlyDigits(s)
         IN  IF digits = <<>> THEN NoNum
             ELSE IF Len(digits) <= 2 THEN ToInt(digits \o <<"0", "0">>)
             ELSE ToInt(digits)

\* datetime.now().year, which "%m/%d" input is completed with
CurrentYear == 2026

MkDate(y, m, d) == [y |-> y, m |-> m, d |-> d]

DateNum(dt) == dt.y * 10000 + dt.m * 100 + dt.d

\* Raw date input: kind "date" is an already typed date, kind "ymd" text in
\* one of the year-bearing formats, kind "md" text in "%m/%d", kind "empty"
\* a falsy value and kind "junk" text that no format parses.
parse_date(raw) ==
    CASE raw.kind = "date" -> [ok |-> TRUE, date |-> MkDate(raw.y, raw.m, raw.d)]
      [] raw.kind = "empty" -> [ok |-> FALSE, error |-> "EmptyDate"]
      [] raw.kind = "ymd" -> [ok |-> TRUE, date |-> MkDate(raw.y, raw.m, raw.d)]
      [] raw.kind = "md" -> [ok |-> TRUE, date |-> MkDate(CurrentYear, raw.m, raw.d)]
      [] OTHER -> [ok |-> FALSE, error |-> "UnparseableDate"]

\* ------------------------------------------------------------------------
\* Arithmetic helpers
\* ------------------------------------------------------------------------
\* n/d rounded to the nearest integer (round(..., 2) on an amount in cents)
RoundDiv(n, d) == IF n >= 0 THEN (2 * n + d) \div (2 * d)
                  ELSE 0 - ((2 * (0 - n) + d) \div (2 * d))

\* round(g / t * 100, 2) in hundredths of a percent, for t > 0; the division
\* is carried out in two steps to stay within 32-bit integers
PercentOf(g, t) ==
    LET a == (IF g >= 0 THEN g ELSE 0 - g) * 100
        h == (a \div t) * 100 + RoundDiv((a % t) * 100, t)
    IN  IF g >= 0 THEN h ELSE 0 - h

\* Python "x or default": the default replaces None and 0
OrDefault(x, dflt) == IF x = NoNum \/ x = 0 THEN dflt ELSE x

RECURSIVE SeqsOf(_)
\* every ordering of a finite set, as sequences: the row orders a query
\* without ORDER BY may produce
SeqsOf(S) == IF S = {} THEN {<<>>}
             ELSE UNION { { <<x>> \o t : t \in SeqsOf(S \ {x}) } : x \in S }

NoDate == MkDate(0, 0, 0)

\* ------------------------------------------------------------------------
\* State
\* ------------------------------------------------------------------------
VARIABLES
    projects,     \* projects table: id -> row
    trucks,       \* trucks table: id -> row
    mixes,        \* mixes table: id -> row
    prices,       \* project_prices table: set of rows
    settings,     \* settings table, as a record keyed by setting key
    attendance,   \* driver attendance: date -> driver_count or NoNum
    summaries,    \* daily_summaries: date -> sum of trips
    dispatches,   \* dispatches table: the committed rows
    pending,      \* per calculator: rows added to its session, not yet committed
    cache,        \* per calculator: _dispatch_no_cache
    live,         \* per calculator: a request is being served
    inserted,     \* per calculator: dispatch_nos collected by commit_dispatch
    errors,       \* per calculator: 1-based positions of the failed batch items
    results,      \* per calculator: statuses collected by the preview handler
    last,         \* outcome of the latest calculator call
    log,          \* earlier outcomes a claim compares the latest one with
    args          \* inputs of a pure-function call (calculate_revenue)

vars == <<projects, trucks, mixes, prices, settings, attendance, summaries,
          dispatches, pending, cache, live, inserted, errors, results, last, log, args>>

refvars == <<projects, trucks, mixes, prices, settings, attendance, summaries>>

Calcs == {"c1"}

\* ------------------------------------------------------------------------
\* Entity resolution
\* ------------------------------------------------------------------------
\* the projects query without the is_active filter
AllProjects == DOMAIN projects

ActiveProjects == { id \in DOMAIN projects : projects[id].is_active }

ActiveTrucks == { id \in DOMAIN trucks : trucks[id].is_active }

ActiveMixes == { id \in DOMAIN mixes : mixes[id].is_active }

RECURSIVE ProjectLabels(_)
ProjectLabels(order) ==
    IF order = <<>> THEN <<>>
    ELSE <<<<projects[Head(order)].code, Head(order)>>,
           <<projects[Head(order)].name, Head(order)>>>> \o ProjectLabels(Tail(order))

RECURSIVE TruckLabels(_)
TruckLabels(order) ==
    IF order = <<>> THEN <<>>
    ELSE LET t == trucks[Head(order)]
         IN  <<<<t.code, Head(order)>>, <<t.plate_no, Head(order)>>>>
             \o (IF t.driver_name # NoText /\ t.driver_name # <<>>
                 THEN <<<<t.driver_name, Head(order)>>>> ELSE <<>>)
             \o TruckLabels(Tail(order))

RECURSIVE MixLabels(_)
MixLabels(order) ==
    IF order = <<>> THEN <<>>
    ELSE <<<<mixes[Head(order)].code, Head(order)>>>> \o MixLabels(Tail(order))

\* "if not matched: raise ValueError ... return candidates[matched]"
\* named is the query the NotFound message quotes
Matched(candidates, matched, query) ==
    IF matched = NoText THEN [ok |-> FALSE, error |-> "NotFound", id |-> 0, named |-> query]
    ELSE [ok |-> TRUE, error |-> "", id |-> DictGet(candidates, matched), named |-> NoText]

\* the fuzzy match of the query among the keys of the candidates dict
MatchAmong(candidates, query, cutoff10) ==
    Matched(candidates, fuzzy_match(query, DictKeys(candidates), cutoff10), query)

\* find_project; order is the row order of the active-projects query
find_project(query, order) ==
    IF order = <<>> THEN [ok |-> FALSE, error |-> "EmptyCorpus", id |-> 0, named |-> NoText]
    ELSE MatchAmong(ProjectLabels(order), query, 6)

find_truck(query, order) ==
    IF order = <<>> THEN [ok |-> FALSE, error |-> "EmptyCorpus", id |-> 0, named |-> NoText]
    ELSE MatchAmong(TruckLabels(order), query, 5)

\* find_mix after parse_psi: the first mix of that strength, else the fuzzy
\* match on the codes
FindMixByPsi(query, order, psi) ==
    LET byPsi == { i \in 1..Len(order) : mixes[order[i]].psi = psi }
    IN  IF psi # NoNum /\ psi # 0 /\ byPsi # {}
        THEN [ok |-> TRUE, error |-> "", id |-> order[MinOf(byPsi)], named |-> NoText]
        ELSE MatchAmong(MixLabels(order), query, 6)

find_mix(query, order) ==
    IF order = <<>> THEN [ok |-> FALSE, error |-> "EmptyCorpus", id |-> 0, named |-> NoText]
    ELSE FindMixByPsi(query, order, parse_psi(query))

\* The queries behind find_project, find_truck and find_mix have no ORDER BY:
\* these are the results over every row order the store may answer with.
FindProject(query) == { find_project(query, po) : po \in SeqsOf(ActiveProjects) }

FindTruck(query) == { find_truck(query, to) : to \in SeqsOf(ActiveTrucks) }

FindMix(query) == { find_mix(query, mo) : mo \in SeqsOf(ActiveMixes) }

\* ------------------------------------------------------------------------
\* Dispatch numbering
\* ------------------------------------------------------------------------
\* f"{dispatch_date.month:02d}{dispatch_date.day:02d}{project.code}"
NoPrefix(pid, date) == Fmt02(date.m) \o Fmt02(date.d) \o projects[pid].code

\* rows of the dispatches table a query of the session sees: the session
\* does not autoflush, so rows it has only added are not among them
VisibleDispatches == dispatches

\* generate_dispatch_no without line 222: the number is handed out but not
\* recorded among the used ones
GenerateWithoutRecording(cch, pid, date) ==
    LET key == <<pid, date>>
        prefix == NoPrefix(pid, date)
        existing == { d.dispatch_no : d \in { r \in VisibleDispatches :
                                               IsPrefix(prefix, r.dispatch_no) } }
        used == IF key \in DOMAIN cch THEN cch[key] ELSE existing
        seq == CHOOSE n \in 1..(Cardinality(used) + 1) :
                 /\ (prefix \o Fmt02(n)) \notin used
                 /\ \A k \in 1..(n - 1) : (prefix \o Fmt02(k)) \in used
        candidate == prefix \o Fmt02(seq)
    IN  [no |-> candidate,
         cache |-> [k \in (DOMAIN cch) \cup {key} |->
                      IF k = key THEN used ELSE cch[k]]]

\* generate_dispatch_no reading only the identifiers of records not cancelled
GenerateSkippingCancelled(cch, pid, date) ==
    LET key == <<pid, date>>
        prefix == NoPrefix(pid, date)
        existing == { d.dispatch_no : d \in { r \in VisibleDispatches :
                                               /\ IsPrefix(prefix, r.dispatch_no)
                                               /\ r.status # "cancelled" } }
        used == IF key \in DOMAIN cch THEN cch[key] ELSE existing
        seq == CHOOSE n \in 1..(Cardinality(used) + 1) :
                 /\ (prefix \o Fmt02(n)) \notin used
                 /\ \A k \in 1..(n - 1) : (prefix \o Fmt02(k)) \in used
        candidate == prefix \o Fmt02(seq)
    IN  [no |-> candidate,
         cache |-> [k \in (DOMAIN cch) \cup {key} |->
                      IF k = key THEN used \cup {candidate} ELSE cch[k]]]

\* generate_dispatch_no on the cache cch: the number and the cache after it
generate_dispatch_no(cch, pid, date) ==
    LET key == <<pid, date>>
        prefix == NoPrefix(pid, date)
        existing == { d.dispatch_no : d \in { r \in VisibleDispatches :
                                               IsPrefix(prefix, r.dispatch_no) } }
        used == IF key \in DOMAIN cch THEN cch[key] ELSE existing
        seq == CHOOSE n \in 1..(Cardinality(used) + 1) :
                 /\ (prefix \o Fmt02(n)) \notin used
                 /\ \A k \in 1..(n - 1) : (prefix \o Fmt02(k)) \in used
        candidate == prefix \o Fmt02(seq)
    IN  [no |-> candidate,
         cache |-> [k \in (DOMAIN cch) \cup {key} |->
                      IF k = key THEN used \cup {candidate} ELSE cch[k]]]

\* ------------------------------------------------------------------------
\* Price lookup
\* ------------------------------------------------------------------------
\* the filter of the get_price query without its is_active condition
QualifiesAnyStatus(b, pid, mid, date, load_m3) ==
    /\ b.project_id = pid
    /\ b.mix_id = mid
    /\ (b.effective_from = NoDate \/ DateNum(b.effective_from) <= DateNum(date))
    /\ (b.effective_to = NoDate \/ DateNum(b.effective_to) >= DateNum(date))
    /\ (b.load_min_m3 = NoNum \/ b.load_min_m3 <= load_m3)
    /\ (b.load_max_m3 = NoNum \/ b.load_max_m3 >= load_m3)

\* the filter of the get_price query
Qualifies(b, pid, mid, date, load_m3) ==
    /\ b.project_id = pid
    /\ b.mix_id = mid
    /\ b.is_active
    /\ (b.effective_from = NoDate \/ DateNum(b.effective_from) <= DateNum(date))
    /\ (b.effective_to = NoDate \/ DateNum(b.effective_to) >= DateNum(date))
    /\ (b.load_min_m3 = NoNum \/ b.load_min_m3 <= load_m3)
    /\ (b.load_max_m3 = NoNum \/ b.load_max_m3 >= load_m3)

\* the two sort keys taken in the other order
SortsByDateFirst(b1, b2) ==
    \/ DateNum(b1.effective_from) > DateNum(b2.effective_from)
    \/ /\ DateNum(b1.effective_from) = DateNum(b2.effective_from)
       /\ b1.load_min_m3 > b2.load_min_m3

\* b1 sorts strictly before b2 under
\* ORDER BY load_min_m3 DESC NULLS LAST, effective_from DESC NULLS LAST
SortsBefore(b1, b2) ==
    \/ b1.load_min_m3 > b2.load_min_m3
    \/ /\ b1.load_min_m3 = b2.load_min_m3
       /\ DateNum(b1.effective_from) > DateNum(b2.effective_from)

\* the rows .first() may return: the qualifying rows no other qualifying row
\* sorts before; rows equal on both sort keys come in an unspecified order
FirstBands(pid, mid, date, load_m3) ==
    LET q == { b \in prices : Qualifies(b, pid, mid, date, load_m3) }
    IN  { b \in q : \A o \in q : ~SortsBefore(o, b) }

\* get_price: the price of the row .first() returns, one outcome per row it
\* may return; NoPriceFound when no row qualifies
get_price(pid, mid, date, load_m3) ==
    LET first == FirstBands(pid, mid, date, load_m3)
    IN  IF first = {} THEN { [ok |-> FALSE, price |-> 0, band |-> 0] }
        ELSE { [ok |-> TRUE, price |-> b.price_per_m3, band |-> b.id] : b \in first }

\* ------------------------------------------------------------------------
\* Revenue and cost
\* ------------------------------------------------------------------------
\* the defaults written into the "or" expressions of the calculator
DefaultSubsidyThreshold == 6

DefaultSubsidyAmount == 50000

DefaultFuelRate == 50

DefaultDriverPay == 80000

DefaultDistance == 10

\* calculate_revenue on the project's subsidy fields
calculate_revenue(threshold, amount, load_m3, price_per_m3) ==
    LET revenue == load_m3 * price_per_m3
        subsidy == IF load_m3 < OrDefault(threshold, DefaultSubsidyThreshold)
                   THEN OrDefault(amount, DefaultSubsidyAmount) ELSE 0
    IN  [revenue |-> revenue, subsidy |-> subsidy, total_revenue |-> revenue + subsidy]

\* calculate_driver_cost counting the day's cancelled trips too
DriverCostCountingCancelled(date, include_current_trip, default_per_trip) ==
    LET driver_count == IF attendance[date] # NoNum THEN attendance[date]
                        ELSE settings.driver_count
        total_salary == settings.driver_daily_salary * driver_count
        recorded == Cardinality({ d \in VisibleDispatches : d.date = date }) + summaries[date]
        total_trips == recorded + (IF include_current_trip THEN 1 ELSE 0)
    IN  IF total_salary <= 0 \/ total_trips <= 0
        THEN [cost |-> default_per_trip, method |-> "per_trip", trips_before |-> NoNum]
        ELSE [cost |-> RoundDiv(total_salary, total_trips), method |-> "shared_payroll",
              trips_before |-> recorded]

\* calculate_driver_cost: the per-trip driver cost in cents and the method
calculate_driver_cost(date, include_current_trip, default_per_trip) ==
    LET driver_daily_salary == settings.driver_daily_salary
        default_driver_count == settings.driver_count
        attendance_count == attendance[date]
        driver_count == IF attendance_count # NoNum THEN attendance_count
                        ELSE default_driver_count
        total_salary == driver_daily_salary * driver_count
        existing_trips == Cardinality({ d \in VisibleDispatches :
                                          d.date = date /\ d.status # "cancelled" })
        summary_trips == summaries[date]
        total_trips == existing_trips + summary_trips
                       + (IF include_current_trip THEN 1 ELSE 0)
    IN  IF total_salary <= 0
        THEN [cost |-> default_per_trip, method |-> "per_trip", trips_before |-> NoNum]
        ELSE IF total_trips <= 0
        THEN [cost |-> default_per_trip, method |-> "per_trip", trips_before |-> NoNum]
        ELSE [cost |-> RoundDiv(total_salary, total_trips), method |-> "shared_payroll",
              trips_before |-> existing_trips + summary_trips]

\* calculate_costs charging the fuel of the outbound leg only
CostsOneWay(mid, tid, load_m3, distance_km, fuel_price, has_date, date, include_current_trip) ==
    LET material_cost == load_m3 * OrDefault(mixes[mid].material_cost_per_m3, 0)
        fuel_milli == distance_km * OrDefault(trucks[tid].fuel_l_per_km, DefaultFuelRate)
                      * fuel_price
        flat == OrDefault(trucks[tid].driver_pay_per_trip, DefaultDriverPay)
        driver == IF has_date THEN calculate_driver_cost(date, include_current_trip, flat)
                  ELSE [cost |-> flat, method |-> "per_trip", trips_before |-> NoNum]
    IN  [material_cost |-> material_cost,
         fuel_cost |-> RoundDiv(fuel_milli, 10),
         driver_cost |-> driver.cost,
         driver_method |-> driver.method,
         trips_before |-> driver.trips_before,
         total_cost |-> RoundDiv(material_cost * 10 + fuel_milli + driver.cost * 10, 10)]

\* calculate_costs with a total that leaves the driver cost out
CostsWithoutDriver(mid, tid, load_m3, distance_km, fuel_price, has_date, date, include_current_trip) ==
    LET material_cost == load_m3 * OrDefault(mixes[mid].material_cost_per_m3, 0)
        fuel_milli == (distance_km * 2) * OrDefault(trucks[tid].fuel_l_per_km, DefaultFuelRate)
                      * fuel_price
        flat == OrDefault(trucks[tid].driver_pay_per_trip, DefaultDriverPay)
        driver == IF has_date THEN calculate_driver_cost(date, include_current_trip, flat)
                  ELSE [cost |-> flat, method |-> "per_trip", trips_before |-> NoNum]
    IN  [material_cost |-> material_cost,
         fuel_cost |-> RoundDiv(fuel_milli, 10),
         driver_cost |-> driver.cost,
         driver_method |-> driver.method,
         trips_before |-> driver.trips_before,
         total_cost |-> RoundDiv(material_cost * 10 + fuel_milli, 10)]

\* calculate_costs; has_date is "dispatch_date is given"
calculate_costs(mid, tid, load_m3, distance_km, fuel_price, has_date, date, include_current_trip) ==
    LET material_cost == load_m3 * OrDefault(mixes[mid].material_cost_per_m3, 0)
        \* thousandths of a currency unit: km * (L/km * 100) * (price * 10)
        fuel_milli == (distance_km * 2) * OrDefault(trucks[tid].fuel_l_per_km, DefaultFuelRate)
                      * fuel_price
        flat == OrDefault(trucks[tid].driver_pay_per_trip, DefaultDriverPay)
        driver == IF has_date THEN calculate_driver_cost(date, include_current_trip, flat)
                  ELSE [cost |-> flat, method |-> "per_trip", trips_before |-> NoNum]
    IN  [material_cost |-> material_cost,
         fuel_cost |-> RoundDiv(fuel_milli, 10),
         driver_cost |-> driver.cost,
         driver_method |-> driver.method,
         trips_before |-> driver.trips_before,
         total_cost |-> RoundDiv(material_cost * 10 + fuel_milli + driver.cost * 10, 10)]

\* ------------------------------------------------------------------------
\* create_dispatch / preview_dispatch
\* ------------------------------------------------------------------------
NoRecord == [dispatch_no |-> <<>>]

NoKey == <<NoDate, 0, 0, 0>>

Failure(err, cch) ==
    [ok |-> FALSE, error |-> err, key |-> NoKey, rec |-> NoRecord, cache |-> cch]

\* the mix of steps 4: explicit query, else the project's default mix, else
\* the configured default strength
ResolveMix(pid, mix_str) ==
    LET given == mix_str # NoText /\ mix_str # <<>>
    IN  IF ~given /\ projects[pid].default_mix_id \in DOMAIN mixes
        THEN { [ok |-> TRUE, error |-> "", id |-> projects[pid].default_mix_id,
                 named |-> NoText] }
        ELSE FindMix(IF given THEN mix_str ELSE settings.default_psi)

\* steps 8-13 of create_dispatch, once project p, truck t, mix m and the price
\* are resolved
CreateRecord(cch, inp, dispatch_date, pid, tid, mid, distance_km, fuel_price, price, revenue_calc, cost_calc, gen) ==
    LET gross_profit == revenue_calc.total_revenue - cost_calc.total_cost
        profit_margin == IF revenue_calc.total_revenue > 0
                         THEN PercentOf(gross_profit, revenue_calc.total_revenue)
                         ELSE 0
        existing == { r \in VisibleDispatches :
                        /\ r.date = dispatch_date
                        /\ r.project_id = pid
                        /\ r.truck_id = tid
                        /\ r.load_m3 = inp.load_m3
                        /\ r.status # "cancelled" }
        key == <<dispatch_date, pid, tid, inp.load_m3>>
    IN  IF existing # {}
        THEN [Failure("DuplicateSuspected", gen.cache) EXCEPT !.key = key]
        ELSE [ok |-> TRUE, error |-> "", cache |-> gen.cache, key |-> key,
              rec |-> [dispatch_no |-> gen.no,
                       date |-> dispatch_date,
                       project_id |-> pid,
                       mix_id |-> mid,
                       truck_id |-> tid,
                       load_m3 |-> inp.load_m3,
                       distance_km |-> distance_km,
                       price_per_m3 |-> price,
                       revenue |-> revenue_calc.revenue,
                       subsidy |-> revenue_calc.subsidy,
                       total_revenue |-> revenue_calc.total_revenue,
                       material_cost |-> cost_calc.material_cost,
                       fuel_cost |-> cost_calc.fuel_cost,
                       driver_cost |-> cost_calc.driver_cost,
                       total_cost |-> cost_calc.total_cost,
                       gross_profit |-> gross_profit,
                       profit_margin |-> profit_margin,
                       fuel_price |-> fuel_price,
                       status |-> "completed",
                       \* history field, not a column: existing_trips + summary_trips
                       \* as calculate_driver_cost counted them when the row was costed
                       h_trips_before |-> cost_calc.trips_before]]

\* create_dispatch drawing the number before the price lookup
CreatePricedNumberFirst(cch, inp, dispatch_date, pid, tid, mid, distance_km, fuel_price, pr) ==
    IF ~pr.ok THEN Failure("NoPriceFound", generate_dispatch_no(cch, pid, dispatch_date).cache)
    ELSE CreateRecord(cch, inp, dispatch_date, pid, tid, mid, distance_km, fuel_price, pr.price,
                      calculate_revenue(projects[pid].subsidy_threshold_m3,
                                        projects[pid].subsidy_amount, inp.load_m3, pr.price),
                      calculate_costs(mid, tid, inp.load_m3, distance_km, fuel_price,
                                      TRUE, dispatch_date, TRUE),
                      generate_dispatch_no(cch, pid, dispatch_date))

\* steps 8-11: revenue, cost, then the number
CreatePriced(cch, inp, dispatch_date, pid, tid, mid, distance_km, fuel_price, pr) ==
    IF ~pr.ok THEN Failure("NoPriceFound", cch)
    ELSE CreateRecord(cch, inp, dispatch_date, pid, tid, mid, distance_km, fuel_price, pr.price,
                      calculate_revenue(projects[pid].subsidy_threshold_m3,
                                        projects[pid].subsidy_amount, inp.load_m3, pr.price),
                      calculate_costs(mid, tid, inp.load_m3, distance_km, fuel_price,
                                      TRUE, dispatch_date, TRUE),
                      generate_dispatch_no(cch, pid, dispatch_date))

\* steps 5-7: distance, fuel price, price
CreateResolved(cch, inp, dispatch_date, p, t, m) ==
    IF ~m.ok THEN { Failure(m.error, cch) }
    ELSE { CreatePriced(cch, inp, dispatch_date, p.id, t.id, m.id,
                        IF inp.distance_km = NoNum
                        THEN OrDefault(projects[p.id].default_distance_km, DefaultDistance)
                        ELSE inp.distance_km,
                        IF inp.fuel_price = NoNum THEN settings.fuel_price ELSE inp.fuel_price,
                        pr) : pr \in get_price(p.id, m.id, dispatch_date, inp.load_m3) }

CreateWithTruck(cch, inp, dispatch_date, p, t) ==
    IF ~t.ok THEN { Failure(t.error, cch) }
    ELSE UNION { CreateResolved(cch, inp, dispatch_date, p, t, m) :
                   m \in ResolveMix(p.id, inp.mix_str) }

CreateWithProject(cch, inp, dispatch_date, p) ==
    IF ~p.ok THEN { Failure(p.error, cch) }
    ELSE UNION { CreateWithTruck(cch, inp, dispatch_date, p, t) :
                   t \in FindTruck(inp.truck_str) }

CreateWithDate(cch, inp, d) ==
    IF ~d.ok THEN { Failure(d.error, cch) }
    ELSE UNION { CreateWithProject(cch, inp, d.date, p) : p \in FindProject(inp.project_str) }

\* create_dispatch with auto_commit left at its default (False), as every
\* caller leaves it: the possible outcomes of the call, one for each way the
\* store may answer its queries.  An outcome is ok with the new row, or the
\* raised error, together with the numbering cache after the call.  The steps
\* run in the order of the method: date, project, truck, mix, distance, fuel
\* price, price, revenue, cost, profit, number, duplicate check, record.
create_dispatch(cch, inp) == CreateWithDate(cch, inp, parse_date(inp.date_str))

NoFields == [price_per_m3 |-> 0, revenue |-> 0, subsidy |-> 0, total_revenue |-> 0,
             material_cost |-> 0, fuel_cost |-> 0, driver_cost |-> 0,
             total_cost |-> 0, gross_profit |-> 0]

PreviewRaise(err) ==
    [ok |-> FALSE, error |-> err, project_id |-> 0, date |-> NoDate, fields |-> NoFields]

PreviewPriced(inp, dispatch_date, pid, pr, revenue_calc, cost_calc) ==
    [ok |-> TRUE, error |-> "", project_id |-> pid, date |-> dispatch_date,
     fields |-> [price_per_m3 |-> pr.price,
                 revenue |-> revenue_calc.revenue,
                 subsidy |-> revenue_calc.subsidy,
                 total_revenue |-> revenue_calc.total_revenue,
                 material_cost |-> cost_calc.material_cost,
                 fuel_cost |-> cost_calc.fuel_cost,
                 driver_cost |-> cost_calc.driver_cost,
                 total_cost |-> cost_calc.total_cost,
                 gross_profit |-> revenue_calc.total_revenue - cost_calc.total_cost]]

PreviewCosted(inp, dispatch_date, pid, tid, mid, distance_km, fuel_price, pr) ==
    IF ~pr.ok THEN PreviewRaise("NoPriceFound")
    ELSE PreviewPriced(inp, dispatch_date, pid, pr,
                       calculate_revenue(projects[pid].subsidy_threshold_m3,
                                         projects[pid].subsidy_amount, inp.load_m3, pr.price),
                       calculate_costs(mid, tid, inp.load_m3, distance_km, fuel_price,
                                       TRUE, dispatch_date, TRUE))

PreviewResolved(inp, dispatch_date, p, t, m) ==
    IF ~m.ok THEN { PreviewRaise(m.error) }
    ELSE { PreviewCosted(inp, dispatch_date, p.id, t.id, m.id,
                         IF inp.distance_km = NoNum
                         THEN OrDefault(projects[p.id].default_distance_km, DefaultDistance)
                         ELSE inp.distance_km,
                         settings.fuel_price,
                         pr) : pr \in get_price(p.id, m.id, dispatch_date, inp.load_m3) }

PreviewWithTruck(inp, dispatch_date, p, t) ==
    IF ~t.ok THEN { PreviewRaise(t.error) }
    ELSE UNION { PreviewResolved(inp, dispatch_date, p, t, m) :
                   m \in ResolveMix(p.id, inp.mix_str) }

PreviewWithProject(inp, dispatch_date, p) ==
    IF ~p.ok THEN { PreviewRaise(p.error) }
    ELSE UNION { PreviewWithTruck(inp, dispatch_date, p, t) : t \in FindTruck(inp.truck_str) }

PreviewWithDate(inp, d) ==
    IF ~d.ok THEN { PreviewRaise(d.error) }
    ELSE UNION { PreviewWithProject(inp, d.date, p) : p \in FindProject(inp.project_str) }

\* the try block of preview_dispatch, step by step: its possible outcomes,
\* each a result or the exception raised inside the block
PreviewTry(inp) == PreviewWithDate(inp, parse_date(inp.date_str))

\* an except clause that lets the price lookup's error through
CaughtLookupOnly(err) == err # "NoPriceFound"

\* "except Exception": the handler of preview_dispatch catches every error
Caught(err) == TRUE

\* preview_dispatch if it drew a dispatch number as create_dispatch does
PreviewResultNumbered(cch, b) ==
    IF b.ok
    THEN [raised |-> FALSE, status |-> "OK", error |-> "", fields |-> b.fields,
          added |-> <<>>, cache |-> generate_dispatch_no(cch, b.project_id, b.date).cache]
    ELSE IF Caught(b.error)
    THEN [raised |-> FALSE, status |-> "ERROR", error |-> b.error, fields |-> NoFields,
          added |-> <<>>, cache |-> cch]
    ELSE [raised |-> TRUE, status |-> "", error |-> b.error, fields |-> NoFields,
          added |-> <<>>, cache |-> cch]

\* preview_dispatch on the outcome b of its try block: the result dictionary,
\* whether an exception left the method, the rows the call added to the
\* session (it adds none) and the numbering cache after the call (it never
\* calls generate_dispatch_no)
PreviewResult(cch, b) ==
    IF b.ok
    THEN [raised |-> FALSE, status |-> "OK", error |-> "", fields |-> b.fields,
          added |-> <<>>, cache |-> cch]
    ELSE IF Caught(b.error)
    THEN [raised |-> FALSE, status |-> "ERROR", error |-> b.error, fields |-> NoFields,
          added |-> <<>>, cache |-> cch]
    ELSE [raised |-> TRUE, status |-> "", error |-> b.error, fields |-> NoFields,
          added |-> <<>>, cache |-> cch]

\* preview_dispatch: its possible outcomes
preview_dispatch(cch, inp) == { PreviewResult(cch, b) : b \in PreviewTry(inp) }

\* ------------------------------------------------------------------------
\* Reference data and inputs
\* ------------------------------------------------------------------------
D2025 == MkDate(2025, 1, 15)

D2026 == MkDate(2026, 1, 15)

Dates == {D2025, D2026}

Projects0 ==
    (1 :> [code |-> <<"A">>, name |-> <<"A", "L", "F", "A">>, default_distance_km |-> 10,
           subsidy_threshold_m3 |-> 6, subsidy_amount |-> 50000, default_mix_id |-> 1,
           is_active |-> TRUE])
    @@ (2 :> [code |-> <<"A", "0">>, name |-> <<"B", "E", "T", "A">>, default_distance_km |-> 10,
              subsidy_threshold_m3 |-> 6, subsidy_amount |-> 50000, default_mix_id |-> NoNum,
              is_active |-> TRUE])

Trucks0 ==
    (1 :> [code |-> <<"D", "1">>, plate_no |-> <<"P", "1">>, driver_name |-> NoText,
           fuel_l_per_km |-> 50, driver_pay_per_trip |-> 80000, is_active |-> TRUE])
    @@ (2 :> [code |-> <<"D", "2">>, plate_no |-> <<"P", "2">>, driver_name |-> NoText,
              fuel_l_per_km |-> 50, driver_pay_per_trip |-> 80000, is_active |-> TRUE])

Mixes0 ==
    (1 :> [code |-> <<"3", "0", "0", "0">>, psi |-> 3000, material_cost_per_m3 |-> 150000,
           is_active |-> TRUE])

Band(id, pid, mid, price, from, to, lmin, lmax, active) ==
    [id |-> id, project_id |-> pid, mix_id |-> mid, price_per_m3 |-> price,
     effective_from |-> from, effective_to |-> to,
     load_min_m3 |-> lmin, load_max_m3 |-> lmax, is_active |-> active]

\* project 1 has a catch-all band; project 2 is priced until the end of 2025
Prices0 == { Band(1, 1, 1, 280000, NoDate, NoDate, NoNum, NoNum, TRUE),
             Band(2, 2, 1, 300000, NoDate, MkDate(2025, 12, 31), NoNum, NoNum, TRUE) }

Settings0(salary) ==
    [fuel_price |-> 325, default_psi |-> <<"3", "0", "0", "0">>,
     driver_daily_salary |-> salary, driver_count |-> 1]

\* a row brought in by the migration script: it keeps the identifier of the
\* old system and the flat driver pay
MigratedRow ==
    [dispatch_no |-> <<"0", "1", "1", "5", "A", "0", "3">>, date |-> D2025,
     project_id |-> 1, mix_id |-> 1, truck_id |-> 2, load_m3 |-> 8, distance_km |-> 10,
     price_per_m3 |-> 280000, revenue |-> 2240000, subsidy |-> 0, total_revenue |-> 2240000,
     material_cost |-> 1200000, fuel_cost |-> 32500, driver_cost |-> 80000,
     total_cost |-> 1312500, gross_profit |-> 927500, profit_margin |-> 4141,
     fuel_price |-> 325, status |-> "completed", h_trips_before |-> NoNum]

Ymd2025 == [kind |-> "ymd", y |-> 2025, m |-> 1, d |-> 15]

\* "01/15", completed with the current year
Md0115 == [kind |-> "md", y |-> 0, m |-> 1, d |-> 15]

JunkDate == [kind |-> "junk", y |-> 0, m |-> 0, d |-> 0]

Args(date_str, project_str, truck_str, load_m3, mix_str) ==
    [date_str |-> date_str, project_str |-> project_str, truck_str |-> truck_str,
     load_m3 |-> load_m3, mix_str |-> mix_str, distance_km |-> NoNum, fuel_price |-> NoNum]

\* the arguments of one create_dispatch call: every date, project and truck
\* that resolves, a date no format parses, a project query nothing resembles
Inputs ==
    { Args(dt, pq, tq, 5, NoText) :
        dt \in {Ymd2025, Md0115}, pq \in {<<"A">>, <<"a", "0">>},
        tq \in {<<"D", "1">>, <<" ", "d", "2">>} }
    \cup { Args(JunkDate, <<"A">>, <<"D", "1">>, 5, NoText),
           Args(Ymd2025, <<"Z", "Z">>, <<"D", "1">>, 5, NoText) }

\* the arguments of one preview_dispatch call
PreviewInputs ==
    { Args(Ymd2025, <<"A">>, <<"D", "1">>, 5, NoText),
      Args(Md0115, <<"A">>, <<"D", "1">>, 5, NoText),
      Args(Md0115, <<"a", "0">>, <<"D", "1">>, 5, NoText),
      Args(JunkDate, <<"A">>, <<"D", "1">>, 5, NoText) }

NoLast == [op |-> "none", calc |-> "", ok |-> FALSE, error |-> "",
           key |-> NoKey, status |-> "", raised |-> FALSE, fields |-> NoFields]

EmptyCache == [k \in {} |-> {}]

\* ------------------------------------------------------------------------
\* Initial state: the reference data loaded, the payroll settings and the
\* day's attendance and aggregate trips as configured, the dispatches table
\* empty or holding a migrated row
\* ------------------------------------------------------------------------
Init ==
    /\ projects = Projects0
    /\ trucks = Trucks0
    /\ mixes = Mixes0
    /\ prices = Prices0
    /\ settings \in { Settings0(0), Settings0(100000) }
    /\ attendance = [d \in Dates |-> NoNum]
    /\ summaries = [d \in Dates |-> 0]
    /\ dispatches \in { {}, {MigratedRow} }
    /\ pending = [c \in Calcs |-> <<>>]
    /\ cache = [c \in Calcs |-> EmptyCache]
    /\ live = [c \in Calcs |-> FALSE]
    /\ inserted = [c \in Calcs |-> <<>>]
    /\ errors = [c \in Calcs |-> <<>>]
    /\ results = [c \in Calcs |-> <<>>]
    /\ last = NoLast
    /\ log = <<>>
    /\ args = <<>>

\* ------------------------------------------------------------------------
\* Requests
\* ------------------------------------------------------------------------
\* a handler starts: a fresh session from get_db and DispatchCalculator(db)
StartRequest(c) ==
    /\ ~live[c]
    /\ live' = [live EXCEPT ![c] = TRUE]
    /\ pending' = [pending EXCEPT ![c] = <<>>]
    /\ cache' = [cache EXCEPT ![c] = EmptyCache]
    /\ inserted' = [inserted EXCEPT ![c] = <<>>]
    /\ errors' = [errors EXCEPT ![c] = <<>>]
    /\ results' = [results EXCEPT ![c] = <<>>]
    /\ last' = [NoLast EXCEPT !.op = "start", !.calc = c]
    /\ UNCHANGED <<refvars, dispatches, log, args>>

Calls(c) == Len(inserted[c]) + Len(errors[c])

RECURSIVE PendingCount(_)
PendingCount(cs) ==
    IF cs = {} THEN 0
    ELSE LET c == CHOOSE x \in cs : TRUE
         IN  Len(pending[c]) + PendingCount(cs \ {c})

RowCount == Cardinality(dispatches) + PendingCount(DOMAIN pending)

\* one iteration of the commit_dispatch loop: create_dispatch, the number
\* collected on success, the 1-based position on an exception
CreateItem(c, inp) ==
    /\ live[c]
    /\ Calls(c) < MaxBatch
    /\ RowCount < MaxDispatch
    /\ \E out \in create_dispatch(cache[c], inp) :
           /\ cache' = [cache EXCEPT ![c] = out.cache]
           /\ IF out.ok
              THEN /\ pending' = [pending EXCEPT ![c] = Append(@, out.rec)]
                   /\ inserted' = [inserted EXCEPT ![c] = Append(@, out.rec.dispatch_no)]
                   /\ errors' = errors
              ELSE /\ errors' = [errors EXCEPT ![c] = Append(@, Calls(c) + 1)]
                   /\ UNCHANGED <<pending, inserted>>
           /\ last' = [NoLast EXCEPT !.op = "create", !.calc = c, !.ok = out.ok,
                                     !.error = out.error,
                                     !.key = IF out.ok THEN NoKey ELSE out.key]
    /\ UNCHANGED <<refvars, dispatches, live, results, log, args>>

\* one iteration of the preview handler loop; an exception leaving
\* preview_dispatch would end the request
PreviewItem(c, inp) ==
    /\ live[c]
    /\ Len(results[c]) < MaxPreview
    /\ \E out \in preview_dispatch(cache[c], inp) :
           /\ cache' = [cache EXCEPT ![c] = out.cache]
           /\ pending' = [pending EXCEPT ![c] = @ \o out.added]
           /\ IF out.raised
              THEN /\ live' = [live EXCEPT ![c] = FALSE]
                   /\ results' = results
              ELSE /\ results' = [results EXCEPT ![c] = Append(@, out.status)]
                   /\ live' = live
           /\ last' = [NoLast EXCEPT !.op = "preview", !.calc = c,
                                     !.ok = (out.status = "OK"), !.error = out.error,
                                     !.status = out.status, !.raised = out.raised,
                                     !.fields = out.fields]
    /\ UNCHANGED <<refvars, dispatches, inserted, errors, log, args>>

\* the end of the handler: "if inserted: db.commit()" writes the session's
\* rows unless one of them breaks the unique index on dispatch_no, in which
\* case the transaction is rolled back; then the session is closed
NosOf(rows) == { rows[i].dispatch_no : i \in 1..Len(rows) }

\* a dispatches table without the unique index
NoUniqueIndex(rows) == TRUE

\* the unique index on dispatch_no accepts the rows
UniqueOk(rows) ==
    /\ \A i, j \in 1..Len(rows) : rows[i].dispatch_no = rows[j].dispatch_no => i = j
    /\ \A r \in dispatches : r.dispatch_no \notin NosOf(rows)

\* the day's payroll pool spread again over every row of the day
Reallocated(rows) ==
    { [r EXCEPT !.driver_cost =
           IF settings.driver_daily_salary * settings.driver_count <= 0 THEN @
           ELSE RoundDiv(settings.driver_daily_salary * settings.driver_count,
                         Cardinality({ o \in rows : o.date = r.date }))] : r \in rows }

\* a commit that recomputes the driver cost of the day's stored rows
FinishRequestReallocating(c) ==
    /\ live[c]
    /\ LET rows == pending[c]
           commits == inserted[c] # <<>> /\ UniqueOk(rows)
       IN  /\ dispatches' = IF commits
                            THEN Reallocated(dispatches \cup { rows[i] : i \in 1..Len(rows) })
                            ELSE dispatches
           /\ last' = [NoLast EXCEPT !.op = "finish", !.calc = c,
                                     !.ok = (inserted[c] = <<>> \/ UniqueOk(rows))]
    /\ live' = [live EXCEPT ![c] = FALSE]
    /\ pending' = [pending EXCEPT ![c] = <<>>]
    /\ cache' = [cache EXCEPT ![c] = EmptyCache]
    /\ inserted' = [inserted EXCEPT ![c] = <<>>]
    /\ errors' = [errors EXCEPT ![c] = <<>>]
    /\ results' = [results EXCEPT ![c] = <<>>]
    /\ UNCHANGED <<refvars, log, args>>

FinishRequest(c) ==
    /\ live[c]
    /\ LET rows == pending[c]
           commits == inserted[c] # <<>> /\ UniqueOk(rows)
       IN  /\ dispatches' = IF commits THEN dispatches \cup { rows[i] : i \in 1..Len(rows) }
                            ELSE dispatches
           /\ last' = [NoLast EXCEPT !.op = "finish", !.calc = c,
                                     !.ok = (inserted[c] = <<>> \/ UniqueOk(rows))]
    /\ live' = [live EXCEPT ![c] = FALSE]
    /\ pending' = [pending EXCEPT ![c] = <<>>]
    /\ cache' = [cache EXCEPT ![c] = EmptyCache]
    /\ inserted' = [inserted EXCEPT ![c] = <<>>]
    /\ errors' = [errors EXCEPT ![c] = <<>>]
    /\ results' = [results EXCEPT ![c] = <<>>]
    /\ UNCHANGED <<refvars, log, args>>

\* a committed row is cancelled (status completed -> cancelled)
Cancel(r) ==
    /\ \A c \in DOMAIN live : ~live[c]
    /\ r \in dispatches
    /\ r.status = "completed"
    /\ dispatches' = (dispatches \ {r}) \cup {[r EXCEPT !.status = "cancelled"]}
    /\ last' = [NoLast EXCEPT !.op = "cancel"]
    /\ UNCHANGED <<refvars, pending, cache, live, inserted, errors, results, log, args>>

Next ==
    \/ \E c \in Calcs : StartRequest(c)
    \/ \E c \in Calcs, inp \in Inputs : CreateItem(c, inp)
    \/ \E c \in Calcs, inp \in PreviewInputs : PreviewItem(c, inp)
    \/ \E c \in Calcs : FinishRequest(c)
    \/ \E r \in dispatches : Cancel(r)

Spec == Init /\ [][Next]_vars

\* ------------------------------------------------------------------------
\* Preview requests over stores with an empty corpus
\* ------------------------------------------------------------------------
\* the table with every row deactivated: the lookups find no active row
Deactivated(table) == [i \in DOMAIN table |-> [table[i] EXCEPT !.is_active = FALSE]]

\* rows of a preview batch: one that resolves, an explicit mix, a date no
\* format parses, a project, a truck and a mix nothing resembles, and a
\* project with no price band on the date
PreviewRows ==
    { Args(Ymd2025, <<"A">>, <<"D", "1">>, 5, NoText),
      Args(Ymd2025, <<"A">>, <<"D", "1">>, 5, <<"3", "0", "0", "0">>),
      Args(JunkDate, <<"A">>, <<"D", "1">>, 5, NoText),
      Args(Ymd2025, <<"Z", "Z">>, <<"D", "1">>, 5, NoText),
      Args(Ymd2025, <<"A">>, <<"Z", "Z">>, 5, NoText),
      Args(Ymd2025, <<"A">>, <<"D", "1">>, 5, <<"9", "9", "9", "9">>),
      Args(Md0115, <<"a", "0">>, <<"D", "1">>, 5, NoText) }

InitPreview ==
    /\ projects \in { Projects0, Deactivated(Projects0) }
    /\ trucks \in { Trucks0, Deactivated(Trucks0) }
    /\ mixes \in { Mixes0, Deactivated(Mixes0) }
    /\ prices \in { Prices0, {} }
    /\ settings \in { Settings0(0), Settings0(100000) }
    /\ attendance = [d \in Dates |-> NoNum]
    /\ summaries = [d \in Dates |-> 0]
    /\ dispatches = {}
    /\ pending = [c \in Calcs |-> <<>>]
    /\ cache = [c \in Calcs |-> EmptyCache]
    /\ live = [c \in Calcs |-> FALSE]
    /\ inserted = [c \in Calcs |-> <<>>]
    /\ errors = [c \in Calcs |-> <<>>]
    /\ results = [c \in Calcs |-> <<>>]
    /\ last = NoLast
    /\ log = <<>>
    /\ args = <<>>

NextPreview ==
    \/ \E c \in Calcs : StartRequest(c)
    \/ \E c \in Calcs, inp \in PreviewRows : PreviewItem(c, inp)
    \/ \E c \in Calcs : FinishRequest(c)

SpecPreview == InitPreview /\ [][NextPreview]_vars

\* ------------------------------------------------------------------------
\* calculate_revenue on its own
\* ------------------------------------------------------------------------
RevenueArgs ==
    [threshold : {0, 5, 6, 8}, amount : {0, 30000, 50000},
     load_m3 : {3, 5, 6, 8}, price_per_m3 : {280000, 300000}]

InitRevenue ==
    /\ projects = Projects0
    /\ trucks = Trucks0
    /\ mixes = Mixes0
    /\ prices = Prices0
    /\ settings = Settings0(0)
    /\ attendance = [d \in Dates |-> NoNum]
    /\ summaries = [d \in Dates |-> 0]
    /\ dispatches = {}
    /\ pending = [c \in Calcs |-> <<>>]
    /\ cache = [c \in Calcs |-> EmptyCache]
    /\ live = [c \in Calcs |-> FALSE]
    /\ inserted = [c \in Calcs |-> <<>>]
    /\ errors = [c \in Calcs |-> <<>>]
    /\ results = [c \in Calcs |-> <<>>]
    /\ last = NoLast
    /\ log = <<>>
    /\ args \in RevenueArgs

\* calculate_revenue for a project with the given subsidy fields
RevenueCall ==
    /\ log = <<>>
    /\ log' = << calculate_revenue(args.threshold, args.amount, args.load_m3,
                                   args.price_per_m3) >>
    /\ last' = [NoLast EXCEPT !.op = "revenue"]
    /\ UNCHANGED <<refvars, dispatches, pending, cache, live, inserted, errors, results, args>>

NextRevenue == RevenueCall

SpecRevenue == InitRevenue /\ [][NextRevenue]_vars

\* ------------------------------------------------------------------------
\* get_price on its own
\* ------------------------------------------------------------------------
MaxBands == 2

MaxLookups == 2

\* bands of project 1 and mix 1: two catch-all bands, a band for loads from
\* 6 m3, a band effective from 2026, a band until the end of 2025 for loads
\* up to 6 m3, an inactive band; a band of another project, a band of
\* another mix; a band for loads from 3 m3, a band effective from 2025
BandPool ==
    { Band(1, 1, 1, 280000, NoDate, NoDate, NoNum, NoNum, TRUE),
      Band(2, 1, 1, 300000, NoDate, NoDate, NoNum, NoNum, TRUE),
      Band(3, 1, 1, 310000, NoDate, NoDate, 6, NoNum, TRUE),
      Band(4, 1, 1, 320000, MkDate(2026, 1, 1), NoDate, NoNum, NoNum, TRUE),
      Band(5, 1, 1, 330000, NoDate, MkDate(2025, 12, 31), NoNum, 6, TRUE),
      Band(6, 1, 1, 340000, NoDate, NoDate, NoNum, NoNum, FALSE),
      Band(7, 2, 1, 350000, NoDate, NoDate, NoNum, NoNum, TRUE),
      Band(8, 1, 2, 360000, NoDate, NoDate, NoNum, NoNum, TRUE),
      Band(9, 1, 1, 370000, NoDate, NoDate, 3, NoNum, TRUE),
      Band(10, 1, 1, 380000, MkDate(2025, 1, 1), NoDate, NoNum, NoNum, TRUE) }

InitPrice ==
    /\ projects = Projects0
    /\ trucks = Trucks0
    /\ mixes = Mixes0
    /\ prices \in { S \in SUBSET BandPool : Cardinality(S) <= MaxBands }
    /\ settings = Settings0(0)
    /\ attendance = [d \in Dates |-> NoNum]
    /\ summaries = [d \in Dates |-> 0]
    /\ dispatches = {}
    /\ pending = [c \in Calcs |-> <<>>]
    /\ cache = [c \in Calcs |-> EmptyCache]
    /\ live = [c \in Calcs |-> FALSE]
    /\ inserted = [c \in Calcs |-> <<>>]
    /\ errors = [c \in Calcs |-> <<>>]
    /\ results = [c \in Calcs |-> <<>>]
    /\ last = NoLast
    /\ log = <<>>
    /\ args = <<>>

\* one get_price call; the store is left as it is
GetPriceCall(pid, mid, date, load_m3) ==
    /\ Len(log) < MaxLookups
    /\ \E out \in get_price(pid, mid, date, load_m3) :
           log' = Append(log, [project_id |-> pid, mix_id |-> mid, date |-> date,
                               load_m3 |-> load_m3, ok |-> out.ok, price |-> out.price,
                               band |-> out.band])
    /\ last' = [NoLast EXCEPT !.op = "price"]
    /\ UNCHANGED <<refvars, dispatches, pending, cache, live, inserted, errors, results, args>>

NextPrice == \E date \in Dates, load_m3 \in {5, 8} : GetPriceCall(1, 1, date, load_m3)

SpecPrice == InitPrice /\ [][NextPrice]_vars

\* ------------------------------------------------------------------------
\* Properties
\* ------------------------------------------------------------------------
Rows(c) == { pending[c][i] : i \in 1..Len(pending[c]) }

TripKey(r) == <<r.date, r.project_id, r.truck_id, r.load_m3>>

\* the sequence number an identifier ends with
SeqNo(no) == ToInt(SubSeq(no, Len(no) - 1, Len(no)))

\* the payroll pool of a date
Pool(date) ==
    settings.driver_daily_salary
    * (IF attendance[date] # NoNum THEN attendance[date] ELSE settings.driver_count)

RECURSIVE SumDriverCost(_)
SumDriverCost(rows) ==
    IF rows = {} THEN 0
    ELSE LET r == CHOOSE x \in rows : TRUE
         IN  r.driver_cost + SumDriverCost(rows \ {r})

\* C1: of two commits that resolve to the same date, project, truck and load,
\* the second fails with DuplicateSuspected and creates no record while the
\* first one's record is not cancelled, in separate requests and within one
\* batch alike: no two records that are not cancelled, committed or added
\* to a session, share the four values; and a commit fails with
\* DuplicateSuspected only while such a record exists (after the first is
\* cancelled the second succeeds).
C1_DuplicateRejected ==
    /\ \A c \in Calcs : \A r1, r2 \in dispatches \cup Rows(c) :
          (/\ TripKey(r1) = TripKey(r2)
           /\ r1.status # "cancelled"
           /\ r2.status # "cancelled") => r1 = r2
    /\ \A c \in Calcs : \A i, j \in 1..Len(pending[c]) :
          TripKey(pending[c][i]) = TripKey(pending[c][j]) => i = j
    /\ (last.op = "create" /\ last.error = "DuplicateSuspected")
          => \E r \in dispatches : TripKey(r) = last.key /\ r.status # "cancelled"

\* C2, first half: with no identifier of the prefix in the store and no
\* failed call on the instance, the k-th commit of a (project, date) gets
\* the sequence number k.
C2_FromOne(c) ==
    \A i \in 1..Len(pending[c]) :
       LET r == pending[c][i]
           prefix == NoPrefix(r.project_id, r.date)
           earlier == { j \in 1..(i - 1) : /\ pending[c][j].project_id = r.project_id
                                            /\ pending[c][j].date = r.date }
       IN  (/\ errors[c] = <<>>
            /\ \A d \in dispatches : ~IsPrefix(prefix, d.dispatch_no))
              => r.dispatch_no = prefix \o Fmt02(Cardinality(earlier) + 1)

\* C2 (as stated): N consecutive successful commits of one (project, date) on
\* one instance, from a store with no identifier of the prefix, get the
\* sequence numbers 01, 02, ..., N in order; when identifiers with the prefix
\* exist, the sequence continues past every one of them.
C2_ContinuesPast ==
    \A c \in Calcs :
       /\ C2_FromOne(c)
       /\ \A r \in Rows(c) : \A d \in dispatches :
             (/\ IsPrefix(NoPrefix(r.project_id, r.date), d.dispatch_no)
              /\ Len(d.dispatch_no) = Len(r.dispatch_no))
                => SeqNo(r.dispatch_no) > SeqNo(d.dispatch_no)

\* C2 (amended): N consecutive successful commits of one (project, date) on
\* one instance, from a store with no identifier of the prefix, get the
\* sequence numbers 01, 02, ..., N in order; when identifiers with the prefix
\* exist, each commit gets the lowest sequence number whose identifier is
\* neither among them nor handed out by the instance for that (project,
\* date) before: it differs from every one of them, and fills a gap below
\* the highest of them when there is one.
C2_LowestUnused ==
    \A c \in Calcs :
       /\ C2_FromOne(c)
       /\ \A i \in 1..Len(pending[c]) :
             LET r == pending[c][i]
                 key == <<r.project_id, r.date>>
                 prefix == NoPrefix(r.project_id, r.date)
                 existing == { d.dispatch_no : d \in { x \in dispatches :
                                                        IsPrefix(prefix, x.dispatch_no) } }
                 n == SeqNo(r.dispatch_no)
             IN  /\ r.dispatch_no = prefix \o Fmt02(n)
                 /\ n >= 1
                 /\ r.dispatch_no \notin existing
                 /\ \A j \in 1..(i - 1) :
                       (/\ pending[c][j].project_id = r.project_id
                        /\ pending[c][j].date = r.date)
                         => pending[c][j].dispatch_no # r.dispatch_no
                 /\ key \in DOMAIN cache[c]
                 /\ \A k \in 1..(n - 1) :
                       (prefix \o Fmt02(k)) \in (existing \cup (cache[c][key] \ {r.dispatch_no}))

\* a commit of a (project, date) took a sequence number below that of an
\* identifier with its prefix that the store already held
C2_Witness ==
    \E c \in Calcs : \E r \in Rows(c) : \E d \in dispatches :
       /\ d.project_id = r.project_id
       /\ d.date = r.date
       /\ IsPrefix(NoPrefix(r.project_id, r.date), d.dispatch_no)
       /\ Len(d.dispatch_no) = Len(r.dispatch_no)
       /\ SeqNo(r.dispatch_no) < SeqNo(d.dispatch_no)

\* C3: generate_dispatch_no never returns an identifier a persisted record
\* holds or the same instance has returned before, whatever the projects and
\* dates of the calls: the identifiers an instance has returned for its
\* records are pairwise distinct and none is held by a persisted record.
C3_NeverReturnsUsed ==
    \A c \in Calcs :
       /\ \A i, j \in 1..Len(inserted[c]) : inserted[c][i] = inserted[c][j] => i = j
       /\ \A d \in dispatches : \A i \in 1..Len(inserted[c]) : d.dispatch_no # inserted[c][i]

\* C4: in a batch, with pool P > 0 and K trips persisted for the date, the
\* N-th trip of the date is costed at P / (K + N).
C4_BatchTripCount ==
    \A c \in Calcs : \A i \in 1..Len(pending[c]) :
       LET r == pending[c][i]
           K == Cardinality({ d \in dispatches : d.date = r.date /\ d.status # "cancelled" })
                + summaries[r.date]
           N == Cardinality({ j \in 1..i : pending[c][j].date = r.date })
       IN  Pool(r.date) > 0 => r.driver_cost = RoundDiv(Pool(r.date), K + N)

\* C5: with pool P > 0 and no aggregate trips for the date, after N trips
\* were committed one after another for the date, each visible to the next
\* (the k-th was costed with k - 1 trips counted before it), the driver costs
\* stored on the N records add up to P within N cents.
C5_PoolSum ==
    \A date \in Dates :
       LET rows == { d \in dispatches : d.date = date }
           N == Cardinality(rows)
           sum == SumDriverCost(rows)
       IN  (/\ Pool(date) > 0
            /\ summaries[date] = 0
            /\ N >= 1
            /\ \A r \in rows : r.status = "completed"
            /\ { r.h_trips_before : r \in rows } = 0..(N - 1))
              => (sum - Pool(date) <= N /\ Pool(date) - sum <= N)

\* a step of preview_dispatch on calculator c
PreviewStep(c) ==
    /\ last'.op = "preview"
    /\ last'.calc = c
    /\ (results'[c] # results[c] \/ live'[c] # live[c])

\* C6: preview_dispatch never mutates state: over a call the dispatch
\* records (committed and in the session), the reference entities and
\* settings, and the numbering cache stay as they were, so that a later
\* commit gets the number and the driver cost it would have got without
\* the preview.
C6_PreviewPure ==
    [][\A c \in Calcs : PreviewStep(c) =>
          UNCHANGED <<refvars, dispatches, pending, cache>>]_vars

\* a preview succeeded on a calculator that holds a record in its session
\* and numbers in its cache
C6_Witness ==
    /\ last.op = "preview"
    /\ last.status = "OK"
    /\ pending[last.calc] # <<>>
    /\ cache[last.calc] # EmptyCache

\* C7: preview_dispatch never raises: whatever the input and the store, it
\* returns a result with status OK or ERROR, an ERROR result carries the
\* failure's message, and in a batch the failing row gets its ERROR result
\* while the handler goes on to the other rows.
C7_PreviewNeverRaises ==
    last.op = "preview" =>
       /\ ~last.raised
       /\ last.status \in {"OK", "ERROR"}
       /\ (last.status = "ERROR" <=> last.error # "")
       /\ live[last.calc]
       /\ results[last.calc] # <<>>
       /\ results[last.calc][Len(results[last.calc])] = last.status

\* in one batch a row failed on a missing price band and the row after it
\* was evaluated
C7_Witness ==
    /\ last.op = "preview"
    /\ last.status = "OK"
    /\ results[last.calc] = <<"ERROR", "OK">>
    /\ prices # {}

\* a preview row failed on a missing price band
C7_WitnessNoPrice ==
    /\ last.op = "preview"
    /\ last.error = "NoPriceFound"

\* C8: calculate_revenue pays the project's subsidy amount when the load is
\* below the project's threshold and nothing otherwise, for every threshold
\* and amount, 0 included, and total_revenue = revenue + subsidy.
C8_SubsidyRule ==
    log # <<>> =>
       /\ log[1].subsidy = (IF args.load_m3 < args.threshold THEN args.amount ELSE 0)
       /\ log[1].revenue = args.load_m3 * args.price_per_m3
       /\ log[1].total_revenue = log[1].revenue + log[1].subsidy

\* the qualification rule of a band for a lookup e, as the price rules state it
C9_Qualifying(b, e) ==
    /\ b.project_id = e.project_id /\ b.mix_id = e.mix_id
    /\ b.is_active = TRUE
    /\ ~(b.effective_from # NoDate /\ DateNum(b.effective_from) > DateNum(e.date))
    /\ ~(b.effective_to # NoDate /\ DateNum(b.effective_to) < DateNum(e.date))
    /\ ~(b.load_min_m3 # NoNum /\ b.load_min_m3 > e.load_m3)
    /\ ~(b.load_max_m3 # NoNum /\ b.load_max_m3 < e.load_m3)

C9_WitnessNoPrice ==
    \E i \in 1..Len(log) : ~log[i].ok /\ prices # {}

ScenarioProjects ==
    (1 :> [code |-> <<"B", "I", "G", "0", "1">>, name |-> <<"B", "I", "G">>,
           default_distance_km |-> 10, subsidy_threshold_m3 |-> 6, subsidy_amount |-> 50000,
           default_mix_id |-> 1, is_active |-> TRUE])

ScenarioTrucks ==
    (1 :> [code |-> <<"D", "0", "1">>, plate_no |-> <<"P", "1">>, driver_name |-> NoText,
           fuel_l_per_km |-> 50, driver_pay_per_trip |-> 80000, is_active |-> TRUE])

ScenarioPrices == { Band(1, 1, 1, 280000, NoDate, NoDate, NoNum, NoNum, TRUE) }

\* the scenario's trip of 5 m3 as the handlers may receive it: code in either
\* case, date with or without the year, mix and distance given or defaulted
ScenarioInputs ==
    { Args(dt, pq, <<"D", "0", "1">>, 5, NoText) :
        dt \in {Ymd2025, Md0115},
        pq \in {<<"B", "I", "G", "0", "1">>, <<"b", "i", "g", "0", "1">>} }
    \cup { Args(Ymd2025, <<"B", "I", "G", "0", "1">>, <<"d", "0", "1">>, 5, <<"3", "0", "0", "0">>),
           [Args(Ymd2025, <<"B", "I", "G", "0", "1">>, <<"D", "0", "1">>, 5, NoText)
              EXCEPT !.distance_km = 10] }

InitScenario ==
    /\ projects = ScenarioProjects
    /\ trucks = ScenarioTrucks
    /\ mixes = Mixes0
    /\ prices = ScenarioPrices
    /\ settings = Settings0(0)
    \* the daily salary is zero, so the pool is zero whoever attended and
    \* whatever the day's aggregate says
    /\ attendance \in { [d \in Dates |-> n] : n \in {NoNum, 2} }
    /\ summaries \in { [d \in Dates |-> n] : n \in {0, 3} }
    /\ dispatches = {}
    /\ pending = [c \in Calcs |-> <<>>]
    /\ cache = [c \in Calcs |-> EmptyCache]
    /\ live = [c \in Calcs |-> FALSE]
    /\ inserted = [c \in Calcs |-> <<>>]
    /\ errors = [c \in Calcs |-> <<>>]
    /\ results = [c \in Calcs |-> <<>>]
    /\ last = NoLast
    /\ log = <<>>
    /\ args = <<>>

NextScenario ==
    \/ \E c \in Calcs : StartRequest(c)
    \/ \E c \in Calcs, inp \in ScenarioInputs : CreateItem(c, inp)
    \/ \E c \in Calcs, inp \in ScenarioInputs : PreviewItem(c, inp)
    \/ \E c \in Calcs : FinishRequest(c)

SpecScenario == InitScenario /\ [][NextScenario]_vars

\* the amounts of a dispatch row, as the preview reports them
AmountsOf(r) ==
    [price_per_m3 |-> r.price_per_m3, revenue |-> r.revenue, subsidy |-> r.subsidy,
     total_revenue |-> r.total_revenue, material_cost |-> r.material_cost,
     fuel_cost |-> r.fuel_cost, driver_cost |-> r.driver_cost,
     total_cost |-> r.total_cost, gross_profit |-> r.gross_profit]

\* the scenario's amounts in cents: 14000, 500, 14500, 7500, 325, 800, 8625, 5875
ScenarioAmounts ==
    [price_per_m3 |-> 280000, revenue |-> 1400000, subsidy |-> 50000,
     total_revenue |-> 1450000, material_cost |-> 750000, fuel_cost |-> 32500,
     driver_cost |-> 80000, total_cost |-> 862500, gross_profit |-> 587500]

\* C11: in the reference scenario (project BIG01, mix 3000, truck D01, one
\* band of 2800, fuel price 32.5, no payroll pool, load 5) every row that
\* commit creates or persists and every successful preview carries revenue
\* 14000, subsidy 500, total revenue 14500, material 7500, fuel 325, driver
\* 800, total cost 8625 and gross profit 5875
C11_ReferenceScenario ==
    /\ \A c \in Calcs : \A r \in Rows(c) : AmountsOf(r) = ScenarioAmounts
    /\ \A r \in dispatches : AmountsOf(r) = ScenarioAmounts
    /\ (last.op = "preview" /\ last.status = "OK") => last.fields = ScenarioAmounts

\* a trip of the scenario is persisted and a later preview succeeded
C11_Witness ==
    /\ dispatches # {}
    /\ last.op = "preview"
    /\ last.status = "OK"
    /\ last.fields = ScenarioAmounts

\* ------------------------------------------------------------------------
\* Two commit requests at once, each with its own session and calculator
\* ------------------------------------------------------------------------
RaceCalcs == {"c1", "c2"}

\* trips of one project on one date
RaceInputs ==
    { Args(Ymd2025, <<"A">>, tq, 5, NoText) : tq \in {<<"D", "1">>, <<"D", "2">>} }

InitRace ==
    /\ projects = Projects0
    /\ trucks = Trucks0
    /\ mixes = Mixes0
    /\ prices = Prices0
    /\ settings = Settings0(0)
    /\ attendance = [d \in Dates |-> NoNum]
    /\ summaries = [d \in Dates |-> 0]
    /\ dispatches \in { {}, {MigratedRow} }
    /\ pending = [c \in RaceCalcs |-> <<>>]
    /\ cache = [c \in RaceCalcs |-> EmptyCache]
    /\ live = [c \in RaceCalcs |-> FALSE]
    /\ inserted = [c \in RaceCalcs |-> <<>>]
    /\ errors = [c \in RaceCalcs |-> <<>>]
    /\ results = [c \in RaceCalcs |-> <<>>]
    /\ last = NoLast
    /\ log = <<>>
    /\ args = <<>>

NextRace ==
    \/ \E c \in RaceCalcs : StartRequest(c)
    \/ \E c \in RaceCalcs, inp \in RaceInputs : CreateItem(c, inp)
    \/ \E c \in RaceCalcs : FinishRequest(c)

SpecRace == InitRace /\ [][NextRace]_vars

\* C12: with two calculators committing trips of the same project and date
\* in any interleaving, the dispatches table never holds two records with
\* the same dispatch_no
C12_UniqueInStore ==
    \A r1, r2 \in dispatches : r1.dispatch_no = r2.dispatch_no => r1 = r2

\* both calculators drew the same number for different trucks; the first
\* commit stored its row and the second was rejected
C12_Witness ==
    /\ last.op = "finish"
    /\ ~last.ok
    /\ \E r \in dispatches : r.dispatch_no = <<"0", "1", "1", "5", "A", "0", "1">>
    /\ Cardinality({ r \in dispatches : r.dispatch_no # MigratedRow.dispatch_no }) = 1

\* a step of calculator c: a call of create_dispatch or preview_dispatch, or
\* the end of its request
CalculatorStep(c) ==
    /\ last'.calc = c
    /\ last'.op \in {"create", "preview", "finish"}
    /\ <<pending, cache, live, inserted, errors, results, dispatches>>
         # <<pending, cache, live, inserted, errors, results, dispatches>>'

\* C13: a successful create_dispatch adds exactly one record to the session,
\* after the records already there and leaving them as they were; a failed
\* one and a preview add none; the end of the request adds to the table at
\* most the session's records; no step of a calculator changes or removes a
\* record of the dispatches table
C13_FrameOfCommit ==
    [][ \A c \in Calcs : CalculatorStep(c) =>
          /\ \A r \in dispatches : r \in dispatches'
          /\ (last'.op = "create" /\ last'.ok) =>
                /\ Len(pending'[c]) = Len(pending[c]) + 1
                /\ SubSeq(pending'[c], 1, Len(pending[c])) = pending[c]
                /\ dispatches' = dispatches
          /\ (last'.op = "create" /\ ~last'.ok) =>
                (pending'[c] = pending[c] /\ dispatches' = dispatches)
          /\ last'.op = "preview" => (pending'[c] = pending[c] /\ dispatches' = dispatches)
          /\ last'.op = "finish" => (dispatches' \ dispatches) \subseteq Rows(c) ]_vars

\* with a payroll pool, a commit went through and the table holds two trips
\* of one day whose stored driver costs differ: the earlier one kept the
\* cost it was stored with
C13_Witness ==
    /\ last.op = "finish"
    /\ last.ok
    /\ settings.driver_daily_salary > 0
    /\ \E r1, r2 \in dispatches :
          /\ r1.date = r2.date
          /\ r1.status = "completed" /\ r2.status = "completed"
          /\ r1.driver_cost # r2.driver_cost

\* C14: batch commit has partial-success semantics: an item that raises is
\* reported with its 1-based position and later items are still processed,
\* the inserted count plus the error count is the number of items processed,
\* and the end of the request persists exactly the records of the items
\* that did not raise
C14_PartialSuccess ==
    [][ \A c \in DOMAIN pending :
          /\ (last'.op = "create" /\ last'.calc = c /\ ~last'.ok) =>
                /\ errors'[c] = Append(errors[c], Calls(c) + 1)
                /\ live'[c]
          /\ (last'.op = "create" /\ last'.calc = c /\ last'.ok) =>
                /\ errors'[c] = errors[c]
                /\ Len(inserted'[c]) = Len(inserted[c]) + 1
          /\ (last'.op = "finish" /\ last'.calc = c /\ live[c]) =>
                dispatches' = dispatches \cup Rows(c) ]_vars

\* ------------------------------------------------------------------------
\* Maintenance of projects, trucks and mixes next to a commit request
\* ------------------------------------------------------------------------
\* maintenance requests in one run
MaxMaintenance == 2

\* the table without the row id
Without(table, id) == [i \in DOMAIN table \ {id} |-> table[i]]

\* project codes a client may send to update_project
UpdateCodes == { <<"A">>, <<"A", "0">>, <<"B">> }

\* update_project: every field of the request body is written to the row, the
\* code among them; the unique index on projects.code refuses a code that
\* another project has, and nothing is stored then.  The other fields are
\* sent with the values the row has.
UpdateProject(pid, code) ==
    /\ Len(log) < MaxMaintenance
    /\ pid \in DOMAIN projects
    /\ projects' = IF \E q \in DOMAIN projects \ {pid} : projects[q].code = code
                   THEN projects
                   ELSE [projects EXCEPT ![pid].code = code]
    /\ last' = [NoLast EXCEPT !.op = "update_project"]
    /\ log' = Append(log, <<"update_project", pid>>)
    /\ UNCHANGED <<trucks, mixes, prices, settings, attendance, summaries, dispatches,
                   pending, cache, live, inserted, errors, results, args>>

\* delete_project: a project with a dispatch or a price band in the table is
\* deactivated; otherwise the row is deleted, or deactivated when the delete
\* fails
DeleteProject(pid) ==
    /\ Len(log) < MaxMaintenance
    /\ pid \in DOMAIN projects
    /\ LET has_dispatch == \E r \in dispatches : r.project_id = pid
           has_price == \E b \in prices : b.project_id = pid
           disabled == [projects EXCEPT ![pid].is_active = FALSE]
       IN  IF has_dispatch \/ has_price
           THEN projects' = disabled
           ELSE projects' \in { Without(projects, pid), disabled }
    /\ last' = [NoLast EXCEPT !.op = "delete_project"]
    /\ log' = Append(log, <<"delete_project", pid>>)
    /\ UNCHANGED <<trucks, mixes, prices, settings, attendance, summaries, dispatches,
                   pending, cache, live, inserted, errors, results, args>>

\* delete_truck: a truck with a dispatch in the table is deactivated;
\* otherwise the row is deleted, or deactivated when the delete fails
DeleteTruck(tid) ==
    /\ Len(log) < MaxMaintenance
    /\ tid \in DOMAIN trucks
    /\ LET has_dispatch == \E r \in dispatches : r.truck_id = tid
           disabled == [trucks EXCEPT ![tid].is_active = FALSE]
       IN  IF has_dispatch
           THEN trucks' = disabled
           ELSE trucks' \in { Without(trucks, tid), disabled }
    /\ last' = [NoLast EXCEPT !.op = "delete_truck"]
    /\ log' = Append(log, <<"delete_truck", tid>>)
    /\ UNCHANGED <<projects, mixes, prices, settings, attendance, summaries, dispatches,
                   pending, cache, live, inserted, errors, results, args>>

\* delete_mix: a mix with a dispatch or a price band in the table, or the
\* default mix of a project, is deactivated; otherwise the row is deleted,
\* or deactivated when the delete fails
DeleteMix(mid) ==
    /\ Len(log) < MaxMaintenance
    /\ mid \in DOMAIN mixes
    /\ LET has_dispatch == \E r \in dispatches : r.mix_id = mid
           has_price == \E b \in prices : b.mix_id = mid
           referenced_by_project == \E q \in DOMAIN projects : projects[q].default_mix_id = mid
           disabled == [mixes EXCEPT ![mid].is_active = FALSE]
       IN  IF has_dispatch \/ has_price \/ referenced_by_project
           THEN mixes' = disabled
           ELSE mixes' \in { Without(mixes, mid), disabled }
    /\ last' = [NoLast EXCEPT !.op = "delete_mix"]
    /\ log' = Append(log, <<"delete_mix", mid>>)
    /\ UNCHANGED <<projects, trucks, prices, settings, attendance, summaries, dispatches,
                   pending, cache, live, inserted, errors, results, args>>

\* the reference mixes and a mix of 4000 psi that nothing refers to
CrudMixes ==
    Mixes0 @@ (2 :> [code |-> <<"4", "0", "0", "0">>, psi |-> 4000,
                     material_cost_per_m3 |-> 180000, is_active |-> TRUE])

CrudInputs ==
    { Args(Ymd2025, <<"A">>, tq, 5, NoText) : tq \in {<<"D", "1">>, <<"D", "2">>} }

InitCrud ==
    /\ projects = Projects0
    /\ trucks = Trucks0
    /\ mixes = CrudMixes
    /\ prices \in { Prices0, {} }
    /\ settings = Settings0(0)
    /\ attendance = [d \in Dates |-> NoNum]
    /\ summaries = [d \in Dates |-> 0]
    /\ dispatches \in { {}, {MigratedRow} }
    /\ pending = [c \in Calcs |-> <<>>]
    /\ cache = [c \in Calcs |-> EmptyCache]
    /\ live = [c \in Calcs |-> FALSE]
    /\ inserted = [c \in Calcs |-> <<>>]
    /\ errors = [c \in Calcs |-> <<>>]
    /\ results = [c \in Calcs |-> <<>>]
    /\ last = NoLast
    /\ log = <<>>
    /\ args = <<>>

NextCrud ==
    \/ \E c \in Calcs : StartRequest(c)
    \/ \E c \in Calcs, inp \in CrudInputs : CreateItem(c, inp)
    \/ \E c \in Calcs : FinishRequest(c)
    \/ \E pid \in DOMAIN projects, code \in UpdateCodes : UpdateProject(pid, code)
    \/ \E pid \in DOMAIN projects : DeleteProject(pid)
    \/ \E tid \in DOMAIN trucks : DeleteTruck(tid)
    \/ \E mid \in DOMAIN mixes : DeleteMix(mid)

SpecCrud == InitCrud /\ [][NextCrud]_vars

\* C15: once a dispatch record references a project, no step changes that
\* project's code
C15_CodeImmutable ==
    [][ \A pid \in DOMAIN projects :
          ((\E r \in dispatches : r.project_id = pid) /\ pid \in DOMAIN projects')
             => projects'[pid].code = projects[pid].code ]_vars

\* C16: no step removes a project, truck or mix that a dispatch record
\* references, and after every step each dispatch record's project, truck and
\* mix exist
C16_ReferencesKept ==
    [][ /\ \A r \in dispatches :
              /\ r.project_id \in DOMAIN projects'
              /\ r.truck_id \in DOMAIN trucks'
              /\ r.mix_id \in DOMAIN mixes'
        /\ \A r \in dispatches' :
              /\ r.project_id \in DOMAIN projects'
              /\ r.truck_id \in DOMAIN trucks'
              /\ r.mix_id \in DOMAIN mixes' ]_vars

\* ------------------------------------------------------------------------
\* find_project, find_truck and find_mix on their own
\* ------------------------------------------------------------------------
MaxResolve == 2

\* the table with the row id deactivated
DeactivatedRow(table, id) == [table EXCEPT ![id].is_active = FALSE]

\* queries: a code, a code in lower case, a name or plate, a bare strength,
\* text nothing resembles, the empty text
ProjectQueries == { <<"A">>, <<"a", "0">>, <<"B", "E", "T", "A">>, <<"Z", "Z">>, <<>> }

TruckQueries == { <<"D", "1">>, <<"p", "2">>, <<"Z", "Z">> }

MixQueries == { <<"3", "0", "0", "0">>, <<"4", "0">>, <<"9", "9", "9", "9">>, <<"x", "x">> }

InitResolve ==
    /\ projects \in { Projects0, Deactivated(Projects0),
                      DeactivatedRow(Projects0, 1), DeactivatedRow(Projects0, 2) }
    /\ trucks \in { Trucks0, Deactivated(Trucks0), DeactivatedRow(Trucks0, 1) }
    /\ mixes \in { CrudMixes, Deactivated(CrudMixes), DeactivatedRow(CrudMixes, 1) }
    /\ prices = Prices0
    /\ settings = Settings0(0)
    /\ attendance = [d \in Dates |-> NoNum]
    /\ summaries = [d \in Dates |-> 0]
    /\ dispatches = {}
    /\ pending = [c \in Calcs |-> <<>>]
    /\ cache = [c \in Calcs |-> EmptyCache]
    /\ live = [c \in Calcs |-> FALSE]
    /\ inserted = [c \in Calcs |-> <<>>]
    /\ errors = [c \in Calcs |-> <<>>]
    /\ results = [c \in Calcs |-> <<>>]
    /\ last = NoLast
    /\ log = <<>>
    /\ args = <<>>

\* one lookup; the store is left as it is
Resolved(kind, query, out) ==
    /\ Len(log) < MaxResolve
    /\ log' = Append(log, [kind |-> kind, query |-> query, ok |-> out.ok,
                           error |-> out.error, id |-> out.id, named |-> out.named])
    /\ last' = [NoLast EXCEPT !.op = kind]
    /\ UNCHANGED <<refvars, dispatches, pending, cache, live, inserted, errors, results, args>>

FindProjectCall(query) == \E out \in FindProject(query) : Resolved("find_project", query, out)

FindTruckCall(query) == \E out \in FindTruck(query) : Resolved("find_truck", query, out)

FindMixCall(query) == \E out \in FindMix(query) : Resolved("find_mix", query, out)

NextResolve ==
    \/ \E query \in ProjectQueries : FindProjectCall(query)
    \/ \E query \in TruckQueries : FindTruckCall(query)
    \/ \E query \in MixQueries : FindMixCall(query)

SpecResolve == InitResolve /\ [][NextResolve]_vars

\* the active rows of the table a lookup of the kind searches
C17_Active(kind) ==
    IF kind = "find_project" THEN { i \in DOMAIN projects : projects[i].is_active }
    ELSE IF kind = "find_truck" THEN { i \in DOMAIN trucks : trucks[i].is_active }
    ELSE { i \in DOMAIN mixes : mixes[i].is_active }

\* C17: a lookup fails with EmptyCorpus when the table has no active row,
\* fails with NotFound naming the query when active rows exist and it
\* fails, and a successful lookup returns an active row
C17_Resolution ==
    \A i \in 1..Len(log) :
       LET e == log[i]
       IN  /\ C17_Active(e.kind) = {} => (~e.ok /\ e.error = "EmptyCorpus")
           /\ (C17_Active(e.kind) # {} /\ ~e.ok) => (e.error = "NotFound" /\ e.named = e.query)
           /\ e.ok => e.id \in C17_Active(e.kind)

\* a lookup passed over an inactive row with its own code, another failed
\* for want of any active row
C17_Witness ==
    /\ ~projects[2].is_active
    /\ \E i \in 1..Len(log) :
          /\ log[i].kind = "find_project"
          /\ log[i].query = <<"a", "0">>
          /\ log[i].ok
          /\ log[i].id = 1
    /\ \E i \in 1..Len(log) : log[i].error = "EmptyCorpus"

\* a lookup failed with NotFound although active rows exist
C17_WitnessNotFound ==
    \E i \in 1..Len(log) :
       /\ log[i].error = "NotFound"
       /\ log[i].named = <<"Z", "Z">>
       /\ C17_Active(log[i].kind) # {}

\* ------------------------------------------------------------------------
\* parse_psi on its own
\* ------------------------------------------------------------------------
\* strengths run from 100 to MaxHundreds * 100
MaxHundreds == 120

\* "psi" in some letter cases, or nothing, after the number
PsiSuffixes == { <<>>, <<"p", "s", "i">>, <<"P", "S", "I">>, <<"P", "s", "i">> }

\* a strength written in full or in hundreds, with or without the unit
PsiArgs ==
    { [strength |-> 100 * k, form |-> "full", raw |-> Digits(100 * k) \o sfx] :
        k \in 1..MaxHundreds, sfx \in PsiSuffixes }
    \cup { [strength |-> 100 * k, form |-> "hundreds", raw |-> Digits(k) \o sfx] :
             k \in 1..MaxHundreds, sfx \in PsiSuffixes }

\* texts without a digit
PsiBlanks ==
    { [strength |-> NoNum, form |-> "none", raw |-> t] :
        t \in { <<>>, NoText, <<"p", "s", "i">>, <<"x", "x">>, <<" ">> } }

InitPsi ==
    /\ projects = Projects0
    /\ trucks = Trucks0
    /\ mixes = Mixes0
    /\ prices = Prices0
    /\ settings = Settings0(0)
    /\ attendance = [d \in Dates |-> NoNum]
    /\ summaries = [d \in Dates |-> 0]
    /\ dispatches = {}
    /\ pending = [c \in Calcs |-> <<>>]
    /\ cache = [c \in Calcs |-> EmptyCache]
    /\ live = [c \in Calcs |-> FALSE]
    /\ inserted = [c \in Calcs |-> <<>>]
    /\ errors = [c \in Calcs |-> <<>>]
    /\ results = [c \in Calcs |-> <<>>]
    /\ last = NoLast
    /\ log = <<>>
    /\ args \in PsiArgs \cup PsiBlanks

\* parse_psi on the text
PsiCall ==
    /\ log = <<>>
    /\ log' = << parse_psi(args.raw) >>
    /\ last' = [NoLast EXCEPT !.op = "parse_psi"]
    /\ UNCHANGED <<refvars, dispatches, pending, cache, live, inserted, errors, results, args>>

NextPsi == PsiCall

SpecPsi == InitPsi /\ [][NextPsi]_vars

\* C18 as stated: parse_psi returns S for the text of S/100, for the text of
\* S, and for either followed by "psi" in any letter case, for every positive
\* multiple S of 100; it returns None for a text without a digit
C18_RoundTrip ==
    log # <<>> => log[1] = args.strength

\* C18, amended: parse_psi returns S for the text of S with or without
\* "psi"; for the text of S/100 with or without "psi" it returns S when
\* S/100 has at most two digits and S/100 itself otherwise; it returns None
\* for a text without a digit
C18_RoundTripShort ==
    log # <<>> =>
       /\ args.form = "full" => log[1] = args.strength
       /\ args.form = "hundreds" =>
             log[1] = IF Len(Digits(args.strength \div 100)) <= 2
                      THEN args.strength
                      ELSE args.strength \div 100
       /\ args.form = "none" => log[1] = NoNum

\* "40PSI" gave 4000
C18_Witness ==
    /\ args.raw = <<"4", "0", "P", "S", "I">>
    /\ log = <<4000>>

\* "100" gave 100, not 10000
C18_WitnessLong ==
    /\ args.form = "hundreds"
    /\ args.strength = 10000
    /\ log = <<100>>

\* C19: create_dispatch checks for a duplicate before it draws a number: a
\* call that fails with DuplicateSuspected leaves the calculator's numbering
\* cache as it was, and a successful call gets the lowest sequence number
\* of its prefix that no created record has, in the table or in the session
C19_CheckBeforeNumber ==
    [][ \A c \in Calcs :
          /\ (last'.op = "create" /\ last'.calc = c /\ last'.error = "DuplicateSuspected")
                => cache'[c] = cache[c]
          /\ (last'.op = "create" /\ last'.calc = c /\ last'.ok
              /\ Len(pending'[c]) = Len(pending[c]) + 1) =>
                LET r == pending'[c][Len(pending'[c])]
                    prefix == NoPrefix(r.project_id, r.date)
                    created == dispatches \cup Rows(c)
                IN  \A n \in 1..(SeqNo(r.dispatch_no) - 1) :
                       \E o \in created : o.dispatch_no = prefix \o Fmt02(n) ]_vars

\* band o comes strictly before band b: a higher load_min, or a load_min
\* where b has none; with the same load_min, a later effective_from, or an
\* effective_from where b has none
C20_Before(o, b) ==
    \/ o.load_min_m3 # NoNum /\ (b.load_min_m3 = NoNum \/ o.load_min_m3 > b.load_min_m3)
    \/ /\ o.load_min_m3 = b.load_min_m3
       /\ o.effective_from # NoDate
       /\ (b.effective_from = NoDate
           \/ DateNum(o.effective_from) > DateNum(b.effective_from))

C20_WitnessDate ==
    \E i \in 1..Len(log) :
       /\ log[i].ok
       /\ log[i].band = 4
       /\ \E o \in prices : o.id \in {1, 2} /\ C9_Qualifying(o, log[i])

\* a lookup chose between two bands with a load_min, another between two
\* bands with an effective_from
C20_WitnessDefined ==
    \/ \E i \in 1..Len(log) :
          /\ log[i].band = 3
          /\ \E o \in prices : o.id = 9 /\ C9_Qualifying(o, log[i])
    \/ \E i \in 1..Len(log) :
          /\ log[i].band = 4
          /\ \E o \in prices : o.id = 10 /\ C9_Qualifying(o, log[i])

\* ------------------------------------------------------------------------
\* generate_dispatch_no on its own, over a day with many trips
\* ------------------------------------------------------------------------
\* trips of project 1 already stored for the day
MaxUsed == 100

\* generate_dispatch_no calls in one run
MaxGenerate == 2

\* the k-th trip of project 1 on 2025-01-15, as create_dispatch stored it:
\* trucks alternate and loads grow, so no two trips are duplicates
TripRowOf(k, load_m3, rev, total_cost) ==
    [dispatch_no |-> NoPrefix(1, D2025) \o Fmt02(k), date |-> D2025,
     project_id |-> 1, mix_id |-> 1, truck_id |-> 1 + (k % 2), load_m3 |-> load_m3,
     distance_km |-> 10, price_per_m3 |-> 280000,
     revenue |-> rev.revenue, subsidy |-> rev.subsidy, total_revenue |-> rev.total_revenue,
     material_cost |-> load_m3 * 150000, fuel_cost |-> 32500, driver_cost |-> 80000,
     total_cost |-> total_cost,
     gross_profit |-> rev.total_revenue - total_cost,
     profit_margin |-> PercentOf(rev.total_revenue - total_cost, rev.total_revenue),
     fuel_price |-> 325, status |-> "completed", h_trips_before |-> NoNum]

TripRow(k) ==
    TripRowOf(k, (k + 1) \div 2, calculate_revenue(6, 50000, (k + 1) \div 2, 280000),
              ((k + 1) \div 2) * 150000 + 112500)

InitNumber ==
    /\ projects = Projects0
    /\ trucks = Trucks0
    /\ mixes = Mixes0
    /\ prices = Prices0
    /\ settings = Settings0(0)
    /\ attendance = [d \in Dates |-> NoNum]
    /\ summaries = [d \in Dates |-> 0]
    /\ dispatches \in { { TripRow(k) : k \in 1..n } : n \in 0..MaxUsed }
    /\ pending = [c \in Calcs |-> <<>>]
    /\ cache = [c \in Calcs |-> EmptyCache]
    /\ live = [c \in Calcs |-> FALSE]
    /\ inserted = [c \in Calcs |-> <<>>]
    /\ errors = [c \in Calcs |-> <<>>]
    /\ results = [c \in Calcs |-> <<>>]
    /\ last = NoLast
    /\ log = <<>>
    /\ args = <<>>

\* one generate_dispatch_no call of calculator c
GenerateCall(c, pid, date) ==
    /\ Len(log) < MaxGenerate
    /\ LET gen == generate_dispatch_no(cache[c], pid, date)
       IN  /\ cache' = [cache EXCEPT ![c] = gen.cache]
           /\ log' = Append(log, [project_id |-> pid, date |-> date, no |-> gen.no])
    /\ last' = [NoLast EXCEPT !.op = "generate", !.calc = c]
    /\ UNCHANGED <<refvars, dispatches, pending, live, inserted, errors, results, args>>

NextNumber == \E c \in Calcs, pid \in {1, 2} : GenerateCall(c, pid, D2025)

SpecNumber == InitNumber /\ [][NextNumber]_vars

\* C21: every identifier generate_dispatch_no returns is the two-digit
\* month, the two-digit day, the project code and exactly two decimal
\* digits, however many identifiers of the prefix are in use
C21_TwoDigitSequence ==
    \A i \in 1..Len(log) :
       LET e == log[i]
           prefix == Fmt02(e.date.m) \o Fmt02(e.date.d) \o projects[e.project_id].code
       IN  /\ Len(e.no) = Len(prefix) + 2
           /\ SubSeq(e.no, 1, Len(prefix)) = prefix
           /\ IsDigit(e.no[Len(e.no) - 1])
           /\ IsDigit(e.no[Len(e.no)])

\* ------------------------------------------------------------------------
\* calculate_costs and calculate_driver_cost on their own
\* ------------------------------------------------------------------------
\* a trip of project 2 by truck 1 on 2025-01-15
OtherRow ==
    [MigratedRow EXCEPT !.dispatch_no = <<"0", "1", "1", "5", "A", "0", "0", "1">>,
                        !.project_id = 2, !.truck_id = 1, !.price_per_m3 = 300000,
                        !.revenue = 2400000, !.total_revenue = 2400000,
                        !.gross_profit = 1087500, !.profit_margin = 4531]

Cancelled(r) == [r EXCEPT !.status = "cancelled"]

\* truck 1 with the given fuel rate and flat pay; NoNum is an unset column
CostTrucks(fuel, pay) ==
    [Trucks0 EXCEPT ![1].fuel_l_per_km = fuel, ![1].driver_pay_per_trip = pay]

\* mix 1 with the given material cost
CostMixes(material) == [Mixes0 EXCEPT ![1].material_cost_per_m3 = material]

InitCost ==
    /\ projects = Projects0
    /\ trucks \in { CostTrucks(50, 80000), CostTrucks(30, 60000),
                    CostTrucks(0, 0), CostTrucks(NoNum, NoNum) }
    /\ mixes \in { CostMixes(150000), CostMixes(0) }
    /\ prices = Prices0
    /\ settings \in { [Settings0(salary) EXCEPT !.driver_count = n] :
                        salary \in {0, 100000}, n \in {0, 1, 2} }
    /\ attendance \in { [d \in Dates |-> n] : n \in {NoNum, 0, 2} }
    /\ summaries \in { [d \in Dates |-> n] : n \in {0, 3} }
    /\ dispatches \in { {}, {MigratedRow}, {Cancelled(MigratedRow)},
                        {MigratedRow, OtherRow}, {Cancelled(MigratedRow), OtherRow} }
    /\ pending = [c \in Calcs |-> <<>>]
    /\ cache = [c \in Calcs |-> EmptyCache]
    /\ live = [c \in Calcs |-> FALSE]
    /\ inserted = [c \in Calcs |-> <<>>]
    /\ errors = [c \in Calcs |-> <<>>]
    /\ results = [c \in Calcs |-> <<>>]
    /\ last = NoLast
    /\ log = <<>>
    /\ args = <<>>

\* calculate_costs for mix 1 and truck 1
CostCall(load_m3, distance_km, fuel_price, has_date, date, include_current_trip) ==
    /\ log = <<>>
    /\ log' = << [op |-> "costs", load_m3 |-> load_m3, distance_km |-> distance_km,
                  fuel_price |-> fuel_price, has_date |-> has_date, date |-> date,
                  include_current_trip |-> include_current_trip,
                  out |-> calculate_costs(1, 1, load_m3, distance_km, fuel_price,
                                          has_date, date, include_current_trip)] >>
    /\ last' = [NoLast EXCEPT !.op = "costs"]
    /\ UNCHANGED <<refvars, dispatches, pending, cache, live, inserted, errors, results, args>>

\* calculate_driver_cost
DriverCostCall(date, include_current_trip, default_per_trip) ==
    /\ log = <<>>
    /\ log' = << [op |-> "driver", date |-> date,
                  include_current_trip |-> include_current_trip,
                  default_per_trip |-> default_per_trip,
                  out |-> calculate_driver_cost(date, include_current_trip,
                                                default_per_trip)] >>
    /\ last' = [NoLast EXCEPT !.op = "driver"]
    /\ UNCHANGED <<refvars, dispatches, pending, cache, live, inserted, errors, results, args>>

NextCost ==
    \/ \E distance_km \in {0, 10}, has_date \in BOOLEAN, include_current_trip \in BOOLEAN :
          CostCall(5, distance_km, 325, has_date, D2025, include_current_trip)
    \/ \E include_current_trip \in BOOLEAN, default_per_trip \in {0, 80000} :
          DriverCostCall(D2025, include_current_trip, default_per_trip)

SpecCost == InitCost /\ [][NextCost]_vars

\* the payroll pool of the date: the daily salary times the attendance of
\* the date, or times the default driver count when no attendance is recorded
C22_Pool(date) ==
    settings.driver_daily_salary
      * (IF attendance[date] # NoNum THEN attendance[date] ELSE settings.driver_count)

\* C22: with a date, the pool is the daily salary times the attendance of
\* the date when one is recorded (0 included) and times the default driver
\* count otherwise; a positive pool over at least one trip is shared, a zero
\* pool gives the truck's flat per-trip rate; without a date the driver
\* cost is always the truck's flat per-trip rate (for a truck that has one)
C22_DriverMode ==
    \A i \in 1..Len(log) :
       LET e == log[i]
       IN  (e.op = "costs" /\ trucks[1].driver_pay_per_trip # NoNum) =>
             /\ ~e.has_date => e.out.driver_cost = trucks[1].driver_pay_per_trip
             /\ (e.has_date /\ C22_Pool(e.date) = 0)
                   => e.out.driver_cost = trucks[1].driver_pay_per_trip
             /\ (e.has_date /\ C22_Pool(e.date) > 0 /\ e.out.driver_method = "shared_payroll")
                   => e.out.driver_cost
                        = RoundDiv(C22_Pool(e.date),
                                   e.out.trips_before + (IF e.include_current_trip THEN 1 ELSE 0))
             /\ (e.has_date /\ C22_Pool(e.date) > 0 /\ e.include_current_trip)
                   => e.out.driver_method = "shared_payroll"

\* the trips of the date that count: the records that are not cancelled, of
\* every project and truck, and the day's aggregate trips
C23_Recorded(date) ==
    Cardinality({ r \in dispatches : r.date = date /\ r.status # "cancelled" })
      + summaries[date]

C23_WitnessNoTrip ==
    /\ log # <<>>
    /\ log[1].op = "driver"
    /\ C22_Pool(D2025) > 0
    /\ C23_Recorded(D2025) = 0
    /\ ~log[1].include_current_trip
    /\ log[1].out.cost = log[1].default_per_trip

\* ------------------------------------------------------------------------
\* find_project and find_truck over stores whose labels coincide
\* ------------------------------------------------------------------------
\* project 2 named as given
NamedProjects(name) == [Projects0 EXCEPT ![2].name = name]

\* truck 2 with the given plate
PlatedTrucks(plate_no) == [Trucks0 EXCEPT ![2].plate_no = plate_no]

\* the reference projects; project 2 named "A", the code of project 1;
\* project 2 named "a", which only normalizes to that code
InitLabels ==
    /\ projects \in { Projects0, NamedProjects(<<"A">>), NamedProjects(<<"a">>) }
    /\ trucks \in { Trucks0, PlatedTrucks(<<"D", "1">>), PlatedTrucks(<<"d", "1">>) }
    /\ mixes = Mixes0
    /\ prices = Prices0
    /\ settings = Settings0(0)
    /\ attendance = [d \in Dates |-> NoNum]
    /\ summaries = [d \in Dates |-> 0]
    /\ dispatches = {}
    /\ pending = [c \in Calcs |-> <<>>]
    /\ cache = [c \in Calcs |-> EmptyCache]
    /\ live = [c \in Calcs |-> FALSE]
    /\ inserted = [c \in Calcs |-> <<>>]
    /\ errors = [c \in Calcs |-> <<>>]
    /\ results = [c \in Calcs |-> <<>>]
    /\ last = NoLast
    /\ log = <<>>
    /\ args = <<>>

\* one lookup, with the row order the store answered its query in
ResolvedIn(kind, query, order, out) ==
    /\ Len(log) < MaxResolve
    /\ log' = Append(log, [kind |-> kind, query |-> query, order |-> order,
                           ok |-> out.ok, id |-> out.id])
    /\ last' = [NoLast EXCEPT !.op = kind]
    /\ UNCHANGED <<refvars, dispatches, pending, cache, live, inserted, errors, results, args>>

FindProjectIn(query, order) == ResolvedIn("find_project", query, order, find_project(query, order))

FindTruckIn(query, order) == ResolvedIn("find_truck", query, order, find_truck(query, order))

NextLabels ==
    \/ \E query \in { <<"A">>, <<" ", "a">>, <<"a", "0">> }, order \in SeqsOf(ActiveProjects) :
          FindProjectIn(query, order)
    \/ \E query \in { <<"D", "1">>, <<"d", "1", " ">>, <<"P", "1">> }, order \in SeqsOf(ActiveTrucks) :
          FindTruckIn(query, order)

SpecLabels == InitLabels /\ [][NextLabels]_vars

\* the labels of an entity: code and name of a project; code, plate and
\* driver name of a truck
C24_Labels(kind, id) ==
    IF kind = "find_project" THEN { projects[id].code, projects[id].name }
    ELSE { trucks[id].code, trucks[id].plate_no, trucks[id].driver_name } \ {NoText}

\* the entities of the order that own a label equal to the query once both
\* are trimmed and upper-cased
C24_Owners(e) ==
    { k \in 1..Len(e.order) :
        \E l \in C24_Labels(e.kind, e.order[k]) : normalize(l) = normalize(e.query) }

\* C24: a project or truck query whose normalized text equals the
\* normalized text of a label of an active entity returns an entity that
\* owns such a label, and of several such entities the one that comes first
\* in the iteration order
C24_ExactFirst ==
    \A i \in 1..Len(log) :
       LET e == log[i]
       IN  C24_Owners(e) # {} =>
             /\ e.ok
             /\ \E k \in C24_Owners(e) : e.order[k] = e.id
             /\ \A k \in C24_Owners(e) : e.order[k] # e.id =>
                   \E j \in C24_Owners(e) : j < k /\ e.order[j] = e.id

\* ------------------------------------------------------------------------
\* Totals: trips whose fuel and driver costs need rounding, with and without
\* subsidy, at a positive price and at a price of zero
\* ------------------------------------------------------------------------
TotalsProjects(threshold) ==
    (1 :> [ScenarioProjects[1] EXCEPT !.subsidy_threshold_m3 = threshold])

TotalsTrucks(fuel) == (1 :> [ScenarioTrucks[1] EXCEPT !.fuel_l_per_km = fuel])

TotalsInputs ==
    { [Args(Ymd2025, <<"B", "I", "G", "0", "1">>, <<"D", "0", "1">>, 5, NoText)
         EXCEPT !.distance_km = km] : km \in {NoNum, 7} }

InitTotals ==
    /\ projects \in { TotalsProjects(th) : th \in {6, 3} }
    /\ trucks \in { TotalsTrucks(fuel) : fuel \in {50, 33} }
    /\ mixes = Mixes0
    /\ prices \in { { Band(1, 1, 1, price, NoDate, NoDate, NoNum, NoNum, TRUE) } :
                      price \in {280000, 0} }
    /\ settings \in { [Settings0(salary) EXCEPT !.fuel_price = fp] :
                        salary \in {0, 100000}, fp \in {325, 328} }
    /\ attendance = [d \in Dates |-> NoNum]
    /\ summaries \in { [d \in Dates |-> n] : n \in {0, 2} }
    /\ dispatches = {}
    /\ pending = [c \in Calcs |-> <<>>]
    /\ cache = [c \in Calcs |-> EmptyCache]
    /\ live = [c \in Calcs |-> FALSE]
    /\ inserted = [c \in Calcs |-> <<>>]
    /\ errors = [c \in Calcs |-> <<>>]
    /\ results = [c \in Calcs |-> <<>>]
    /\ last = NoLast
    /\ log = <<>>
    /\ args = <<>>

NextTotals ==
    \/ \E c \in Calcs : StartRequest(c)
    \/ \E c \in Calcs, inp \in TotalsInputs : CreateItem(c, inp)
    \/ \E c \in Calcs, inp \in TotalsInputs : PreviewItem(c, inp)
    \/ \E c \in Calcs : FinishRequest(c)

SpecTotals == InitTotals /\ [][NextTotals]_vars

\* the three sums over the amounts f of a record or of a preview result
C25_Sums(f) ==
    /\ f.total_revenue = f.revenue + f.subsidy
    /\ f.total_cost = f.material_cost + f.fuel_cost + f.driver_cost
    /\ f.gross_profit = f.total_revenue - f.total_cost

C25_WitnessNoRevenue ==
    \E c \in Calcs : \E r \in Rows(c) :
       r.total_revenue = 0 /\ r.gross_profit < 0 /\ r.profit_margin = 0

\* a preview of the same trip succeeded
C25_WitnessPreview ==
    /\ last.op = "preview"
    /\ last.status = "OK"
    /\ last.fields.fuel_cost = 15154
    /\ last.fields.driver_cost = 33333

\* C26: calculate_costs returns fuel cost (distance_km x 2) x fuel_l_per_km x
\* fuel_price and material cost load_m3 x material_cost_per_m3 for every value
\* the truck and the mix set, a fuel rate of 0 and a distance of 0 included,
\* both of which give a fuel cost of 0
C26_CostFormulas ==
    \A i \in 1..Len(log) :
       LET e == log[i]
       IN  (e.op = "costs" /\ trucks[1].fuel_l_per_km # NoNum
              /\ mixes[1].material_cost_per_m3 # NoNum) =>
             /\ e.out.fuel_cost
                  = RoundDiv((e.distance_km * 2) * trucks[1].fuel_l_per_km * e.fuel_price, 10)
             /\ e.out.material_cost = e.load_m3 * mixes[1].material_cost_per_m3
             /\ (trucks[1].fuel_l_per_km = 0 \/ e.distance_km = 0) => e.out.fuel_cost = 0

\* ------------------------------------------------------------------------
\* Preview against commit: the reference data with one price band per
\* project, or with a second band for project 1 that sorts equal to the first
\* ------------------------------------------------------------------------
TiedBand == Band(3, 1, 1, 290000, NoDate, NoDate, NoNum, NoNum, TRUE)

InitAgree ==
    /\ projects = Projects0
    /\ trucks = Trucks0
    /\ mixes = Mixes0
    /\ prices \in { Prices0, Prices0 \cup {TiedBand} }
    /\ settings \in { Settings0(0), Settings0(100000) }
    /\ attendance = [d \in Dates |-> NoNum]
    /\ summaries = [d \in Dates |-> 0]
    /\ dispatches \in { {}, {MigratedRow} }
    /\ pending = [c \in Calcs |-> <<>>]
    /\ cache = [c \in Calcs |-> EmptyCache]
    /\ live = [c \in Calcs |-> FALSE]
    /\ inserted = [c \in Calcs |-> <<>>]
    /\ errors = [c \in Calcs |-> <<>>]
    /\ results = [c \in Calcs |-> <<>>]
    /\ last = NoLast
    /\ log = <<>>
    /\ args = <<>>

NextAgree ==
    \/ \E c \in Calcs : StartRequest(c)
    \/ \E c \in Calcs, inp \in Inputs : CreateItem(c, inp)
    \/ \E c \in Calcs, inp \in PreviewInputs : PreviewItem(c, inp)
    \/ \E c \in Calcs : FinishRequest(c)

SpecAgree == InitAgree /\ [][NextAgree]_vars

C28_EarlyErrors == {"EmptyDate", "UnparseableDate", "NotFound", "EmptyCorpus", "NoPriceFound"}

\* C28: a create_dispatch that raises before the number is drawn (date not
\* parsed, project, truck or mix not found, no price band) leaves the
\* dispatches table, the session's rows, the reference data and the numbering
\* cache as they were
C28_EarlyFailureFrame ==
    [][\A c \in Calcs :
          (last'.op = "create" /\ last'.calc = c /\ ~last'.ok
             /\ last'.error \in C28_EarlyErrors /\ errors'[c] # errors[c]) =>
             /\ dispatches' = dispatches
             /\ pending' = pending
             /\ cache' = cache
             /\ inserted' = inserted
             /\ refvars' = refvars]_vars

\* after a record was created and its number cached, a create_dispatch of the
\* same session found no price
C28_Witness ==
    /\ last.op = "create"
    /\ ~last.ok
    /\ last.error = "NoPriceFound"
    /\ \E c \in Calcs : last.calc = c /\ pending[c] # <<>> /\ cache[c] # EmptyCache

\* the same after a date no format parses and after an unknown project
C28_WitnessLookup ==
    /\ last.op = "create"
    /\ ~last.ok
    /\ last.error \in {"UnparseableDate", "NotFound"}
    /\ \E c \in Calcs : last.calc = c /\ pending[c] # <<>> /\ cache[c] # EmptyCache

\* C29: the identifier of a cancelled record is never given out again: no
\* record created after the cancellation, the re-entry of the cancelled trip
\* included, and no other record of the table carries it
C29_NeverReissued ==
    \A d \in dispatches :
       d.status = "cancelled" =>
          /\ \A c \in Calcs : \A r \in Rows(c) : r.dispatch_no # d.dispatch_no
          /\ \A o \in dispatches \ {d} : o.dispatch_no # d.dispatch_no

\* a trip was cancelled and entered again: the new record has the project,
\* date, truck and load of the cancelled one and another identifier
C29_Witness ==
    \E d \in dispatches : \E c \in Calcs : \E r \in Rows(c) :
       /\ d.status = "cancelled"
       /\ TripKey(r) = TripKey(d)
       /\ r.dispatch_no # d.dispatch_no

\* the re-entered trip is persisted beside the cancelled one
C29_WitnessPersisted ==
    \E d, o \in dispatches :
       /\ d.status = "cancelled"
       /\ o.status = "completed"
       /\ TripKey(o) = TripKey(d)
       /\ SeqNo(o.dispatch_no) > SeqNo(d.dispatch_no)

\* C30: the record a successful create_dispatch adds references a project, a
\* truck and a mix that are active when it is created, whether the mix was
\* named, is the project's default mix or comes from the default strength
C30_ActiveReferences ==
    [][\A c \in Calcs :
          (last'.op = "create" /\ last'.calc = c /\ last'.ok
             /\ Len(pending'[c]) = Len(pending[c]) + 1) =>
             LET r == pending'[c][Len(pending'[c])]
             IN  /\ r.project_id \in ActiveProjects
                 /\ r.truck_id \in ActiveTrucks
                 /\ r.mix_id \in ActiveMixes]_vars

====
